---- MODULE Spec2Model ----
(***************************************************************************)
(* Truck calculator: the server action getTruckSuggestion (footage of the  *)
(* two flows -> getTrucksForFeet -> combined notes) and the component's    *)
(* recovery of the per-class breakdown from the notes                      *)
(* (getMixedSummary / parseCombinedRecommendation).                        *)
(*                                                                         *)
(* Lengths are fixed-point numbers in hundredths of a foot: 48 ft is 4800. *)
(* A text is a sequence of one-character strings, so that formatting and   *)
(* parsing are modelled by what they do to the characters.                 *)
(***************************************************************************)
EXTENDS Integers, Sequences, FiniteSets, TLC

VARIABLES
    pc,                 \* where the call of getTruckSuggestion stands
    itemsWithData,      \* the items getTruckSuggestion was called with
    itemsForPacking,    \* the items routed to providePackingSuggestions
    itemsForEstimation, \* the items routed to estimateTruckRequirements
    packingCalls,       \* how often providePackingSuggestions was invoked
    estimationCalls,    \* how often estimateTruckRequirements was invoked
    packingResult,      \* what providePackingSuggestions returned
    estimationResult,   \* what estimateTruckRequirements returned
    totalLinearFeet,    \* packingFeet + estimationFeet
    trucks,             \* { truckType, trucksNeeded, summary } of getTrucksForFeet
    suggestion,         \* the TruckSuggestion returned to the component, which is
                        \* the component's state "suggestion" (absent: null)
    thrown,             \* the message of the error thrown to the caller
    mixedParsed,        \* the component's parsed entries of a Mixed suggestion
    mixedTypes,         \* the truck types the component shows for a Mixed suggestion
    allocation,         \* the component's map: truck type -> perTruckFeet, occupancy
    writtenClauses,     \* the clauses the notes were written from, kept for the
                        \* properties of the parser (empty when not known)
    items,              \* the component's state "items"
    isLoading,          \* the component's state "isLoading"
    pendingCalls,       \* the getTruckSuggestion calls of handleCalculate in flight,
                        \* each with the item list it was given
    suggestionItems,    \* the item list given to the call that last set a suggestion
    lastOp              \* the handler of the component that ran last, with its argument

\* the state of one call of getTruckSuggestion
callVars == <<pc, itemsWithData, itemsForPacking, itemsForEstimation, packingCalls,
              estimationCalls, packingResult, estimationResult, totalLinearFeet, trucks,
              thrown>>

\* what the component derives from its suggestion when it renders
renderVars == <<mixedParsed, mixedTypes, allocation, writtenClauses>>

\* the state of the component that its handlers change, apart from suggestion
componentVars == <<items, isLoading, pendingCalls, suggestionItems, lastOp>>

vars == <<callVars, suggestion, renderVars, componentVars>>

-----------------------------------------------------------------------------
(* Bounds of the model *)

\* largest footage a flow reports, in hundredths of a foot (528 ft: 11 trucks)
MaxCents == 52800
\* most negative footage a flow reports, in hundredths of a foot
MaxNegCents == 2
\* longest item list handed to getTruckSuggestion
MaxItems == 2
\* longest item list the component is given
MaxListLen == 3
\* most calls of getTruckSuggestion followed while in flight
MaxPending == 2

-----------------------------------------------------------------------------
(* Characters and the JavaScript string primitives the code uses *)

DigitChars == <<"0", "1", "2", "3", "4", "5", "6", "7", "8", "9">>
UpperChars == <<"A", "B", "C", "D", "E", "F", "G", "H", "I", "J", "K", "L", "M", "N", "O", "P",
                "Q", "R", "S", "T", "U", "V", "W", "X", "Y", "Z">>
LowerChars == <<"a", "b", "c", "d", "e", "f", "g", "h", "i", "j", "k", "l", "m", "n", "o", "p",
                "q", "r", "s", "t", "u", "v", "w", "x", "y", "z">>

Range(s) == {s[i] : i \in 1..Len(s)}
DigitSet == Range(DigitChars)
UpperSet == Range(UpperChars)
LowerSet == Range(LowerChars)

\* \d
IsDigit(c) == c \in DigitSet
\* [A-Za-z]
IsLetter(c) == c \in UpperSet \cup LowerSet
\* \w, the class \b is defined by
IsWordChar(c) == IsLetter(c) \/ IsDigit(c) \/ c = "_"
\* \s (the ASCII part of it)
IsSpace(c) == c \in {" ", "\t", "\n", "\r", "\f"}
\* the characters "." does not match
IsLineTerminator(c) == c \in {"\n", "\r"}

LowerOf == [c \in UpperSet |-> LowerChars[CHOOSE i \in 1..26 : UpperChars[i] = c]]
\* case folding of the /i flag
toLowerCase(c) == IF c \in UpperSet THEN LowerOf[c] ELSE c

DigitValue(c) == (CHOOSE i \in 1..10 : DigitChars[i] = c) - 1

SetMin(S) == CHOOSE x \in S : \A y \in S : x <= y
SetMax(S) == CHOOSE x \in S : \A y \in S : x >= y

\* s.substring(from - 1, to) in 1-based positions; empty when from > to
Slice(s, from, to) == IF from > to THEN <<>> ELSE SubSeq(s, from, to)

\* the text pat (lower case) occurs in s at position i, ignoring case
MatchesAt(s, i, pat) ==
    /\ i >= 1
    /\ i + Len(pat) - 1 <= Len(s)
    /\ toLowerCase(s[i]) = pat[1]
    /\ \A k \in 1..Len(pat) : toLowerCase(s[i + k - 1]) = pat[k]

\* /pat/i.test(s)
Contains(s, pat) == \E i \in 1..Len(s) : MatchesAt(s, i, pat)

\* the first position from i on that holds no \s character (Len(s) + 1 if none)
RECURSIVE SpaceRunEnd(_, _)
SpaceRunEnd(s, i) ==
    IF i > Len(s) \/ ~IsSpace(s[i]) THEN i ELSE SpaceRunEnd(s, i + 1)

\* the last position up to j that holds no \s character (0 if none)
RECURSIVE SpaceRunStart(_, _)
SpaceRunStart(s, j) ==
    IF j < 1 \/ ~IsSpace(s[j]) THEN j ELSE SpaceRunStart(s, j - 1)

\* String.prototype.trim
trim(s) == Slice(s, SpaceRunEnd(s, 1), SpaceRunStart(s, Len(s)))

\* the decimal digits of a natural number, as `${n}` prints it
RECURSIVE NatToString(_)
NatToString(n) ==
    IF n < 10 THEN <<DigitChars[n + 1]>>
    ELSE NatToString(n \div 10) \o <<DigitChars[(n % 10) + 1]>>

\* `${n}` for an integer
IntToString(n) == IF n < 0 THEN <<"-">> \o NatToString(-n) ELSE NatToString(n)

\* Number.prototype.toFixed(2) of a footage held in hundredths
toFixed2(cents) ==
    LET a == IF cents < 0 THEN -cents ELSE cents
        body == NatToString(a \div 100) \o <<".">>
                  \o <<DigitChars[((a \div 10) % 10) + 1], DigitChars[(a % 10) + 1]>>
    IN  IF cents < 0 THEN <<"-">> \o body ELSE body

\* parseInt(digits, 10) of a non-empty run of digits
RECURSIVE parseInt(_)
parseInt(ds) ==
    IF Len(ds) = 0 THEN 0
    ELSE 10 * parseInt(SubSeq(ds, 1, Len(ds) - 1)) + DigitValue(ds[Len(ds)])

\* the JavaScript % operator: the result takes the sign of the dividend
JsRemainder(a, b) == IF a >= 0 THEN a % b ELSE -((-a) % b)

-----------------------------------------------------------------------------
(* getTrucksForFeet: footage -> truck type, truck count and summary text *)

\* 48 ft, the length of a full truck, in hundredths of a foot
FULL_TRUCK_FEET == 4800
\* 14 ft: a remainder below it is LTL
LTL_LIMIT_FEET == 1400
\* 24 ft: a remainder up to it is a half truck
HALF_LIMIT_FEET == 2400

\* the text a truck type is printed as inside a template literal
TypeText(t) ==
    CASE t = "LTL" -> <<"L", "T", "L">>
      [] t = "Half Truck" -> <<"H", "a", "l", "f", " ", "T", "r", "u", "c", "k">>
      [] t = "Full Truck" -> <<"F", "u", "l", "l", " ", "T", "r", "u", "c", "k">>
      [] t = "Mixed" -> <<"M", "i", "x", "e", "d">>

\* lines 24-33 with "remainingFeet <= 14" for the LTL test
overflowTruckTypeOf_InclusiveLTL(remainingFeet) ==
    IF remainingFeet > 0
    THEN IF remainingFeet <= LTL_LIMIT_FEET THEN "LTL"
         ELSE IF remainingFeet <= HALF_LIMIT_FEET THEN "Half Truck"
         ELSE "Full Truck"
    ELSE "none"

\* lines 24-33 with "remainingFeet >= 0" for the outer test
overflowTruckTypeOf_ZeroRemainder(remainingFeet) ==
    IF remainingFeet >= 0
    THEN IF remainingFeet < LTL_LIMIT_FEET THEN "LTL"
         ELSE IF remainingFeet <= HALF_LIMIT_FEET THEN "Half Truck"
         ELSE "Full Truck"
    ELSE "none"

\* lines 24-33 without the final else: every remainder from 14 ft on is a half truck
overflowTruckTypeOf_NoFullOverflow(remainingFeet) ==
    IF remainingFeet > 0
    THEN IF remainingFeet < LTL_LIMIT_FEET THEN "LTL" ELSE "Half Truck"
    ELSE "none"

\* lines 24-33, let overflowTruckType: "none" stands for null
overflowTruckTypeOf(remainingFeet) ==
    IF remainingFeet > 0
    THEN IF remainingFeet < LTL_LIMIT_FEET THEN "LTL"
         ELSE IF remainingFeet <= HALF_LIMIT_FEET THEN "Half Truck"
         ELSE "Full Truck"
    ELSE "none"

\* the early return of line 18
NoShipment == [truckType |-> "LTL", trucksNeeded |-> 0, summary |-> <<"N", "o", " ", "s", "h", "i",
                                        "p", "m", "e", "n", "t", " ", "i", "t", "e", "m", "s",
                                        ".">>]

\* lines 35-54 with trucksNeeded of a Mixed result missing the overflow truck
resultFor_NoOverflowTruck(fullTrucks, overflowTruckType) ==
    IF fullTrucks > 0 /\ overflowTruckType # "none"
    THEN [truckType |-> "Mixed", trucksNeeded |-> fullTrucks,
          summary |-> IntToString(fullTrucks) \o <<" ", "F", "u", "l", "l", " ", "T", "r", "u",
                                        "c", "k", "(", "s", ")", " ", "a", "n", "d", " ", "1", " ">>
                        \o TypeText(overflowTruckType)]
    ELSE IF fullTrucks > 0
    THEN [truckType |-> "Full Truck", trucksNeeded |-> fullTrucks,
          summary |-> IntToString(fullTrucks) \o <<" ", "F", "u", "l", "l", " ", "T", "r", "u",
                                        "c", "k", "(", "s", ")">>]
    ELSE IF overflowTruckType # "none"
    THEN [truckType |-> overflowTruckType, trucksNeeded |-> 1,
          summary |-> <<"1", " ">> \o TypeText(overflowTruckType)]
    ELSE [truckType |-> "LTL", trucksNeeded |-> 0, summary |-> <<"C", "a", "l", "c", "u", "l", "a",
                                        "t", "i", "o", "n", " ", "e", "r", "r", "o", "r", ".">>]

\* lines 35-54: the result for the two locals fullTrucks and overflowTruckType
resultFor(fullTrucks, overflowTruckType) ==
    LET trucksNeeded == fullTrucks + (IF overflowTruckType # "none" THEN 1 ELSE 0)
    IN  IF fullTrucks > 0 /\ overflowTruckType # "none"
        THEN [truckType |-> "Mixed", trucksNeeded |-> trucksNeeded,
              summary |-> IntToString(fullTrucks) \o <<" ", "F", "u", "l", "l", " ", "T", "r", "u",
                                        "c", "k", "(", "s", ")", " ", "a", "n", "d", " ", "1", " ">>
                            \o TypeText(overflowTruckType)]
        ELSE IF fullTrucks > 0
        THEN [truckType |-> "Full Truck", trucksNeeded |-> fullTrucks,
              summary |-> IntToString(fullTrucks) \o <<" ", "F", "u", "l", "l", " ", "T", "r", "u",
                                        "c", "k", "(", "s", ")">>]
        ELSE IF overflowTruckType # "none"
        THEN [truckType |-> overflowTruckType, trucksNeeded |-> 1,
              summary |-> <<"1", " ">> \o TypeText(overflowTruckType)]
        ELSE \* "Should not be reached if totalLinearFeet > 0"
             [truckType |-> "LTL", trucksNeeded |-> 0, summary |-> <<"C", "a", "l", "c", "u", "l",
                                        "a", "t", "i", "o", "n", " ", "e", "r", "r", "o", "r",
                                        ".">>]

\* getTrucksForFeet with the early return testing === 0 instead of <= 0
getTrucksForFeet_ZeroOnly(feet) ==
    IF feet = 0 THEN NoShipment
    ELSE resultFor(feet \div FULL_TRUCK_FEET,
                   overflowTruckTypeOf(JsRemainder(feet, FULL_TRUCK_FEET)))

\* getTrucksForFeet with the early return testing < 0 instead of <= 0
getTrucksForFeet_NegativeOnly(feet) ==
    IF feet < 0 THEN NoShipment
    ELSE resultFor(feet \div FULL_TRUCK_FEET,
                   overflowTruckTypeOf(JsRemainder(feet, FULL_TRUCK_FEET)))

getTrucksForFeet(feet) ==
    IF feet <= 0 THEN NoShipment
    ELSE LET fullTrucks == feet \div FULL_TRUCK_FEET
             remainingFeet == JsRemainder(feet, FULL_TRUCK_FEET)
         IN  resultFor(fullTrucks, overflowTruckTypeOf(remainingFeet))

-----------------------------------------------------------------------------
(* getMixedSummary: the text after "recommendation is" on its line *)

\* the literal part of /recommendation is:?\s*(.+)/i, folded to lower case
RECOMMENDATION_IS == <<"r", "e", "c", "o", "m", "m", "e", "n", "d", "a", "t", "i", "o", "n", " ",
                       "i", "s">>
\* the summary used when the notes hold no recommendation
MIXED_FLEET_REQUIRED == <<"M", "i", "x", "e", "d", " ", "F", "l", "e", "e", "t", " ", "R", "e",
                          "q", "u", "i", "r", "e", "d">>

\* (.+) with "." matching line terminators too: up to the end of the text
LineEnd_EndOfText(s, a) == Len(s) + 1

\* the position after the line that position a is on
RECURSIVE LineEnd(_, _)
LineEnd(s, a) ==
    IF a > Len(s) \/ IsLineTerminator(s[a]) THEN a ELSE LineEnd(s, a + 1)

\* where (.+) starts when \s* starts at p: \s* is greedy and gives characters
\* back until "." can match one; 0 when it cannot
DotGroupStart(s, p) ==
    LET cands == {a \in p..SpaceRunEnd(s, p) : a <= Len(s) /\ ~IsLineTerminator(s[a])}
    IN  IF cands = {} THEN 0 ELSE SetMax(cands)

\* where (.+) starts for the occurrence of "recommendation is" at i: ":?" takes
\* the colon first and is retried without it; 0 when this occurrence fails
RecommendationGroupStart(s, i) ==
    LET p == i + Len(RECOMMENDATION_IS)
        withColon == IF p <= Len(s) /\ s[p] = ":" THEN DotGroupStart(s, p + 1) ELSE 0
    IN  IF withColon # 0 THEN withColon ELSE DotGroupStart(s, p)

\* the first position from i on where the whole pattern matches; 0 when none
RECURSIVE firstRecommendation(_, _)
firstRecommendation(s, i) ==
    IF i > Len(s) THEN 0
    ELSE IF MatchesAt(s, i, RECOMMENDATION_IS) /\ RecommendationGroupStart(s, i) # 0 THEN i
    ELSE firstRecommendation(s, i + 1)

\* m[1] of packingNotes.match(/recommendation is:?\s*(.+)/i); <<>> when m is null
recommendationMatch(s) ==
    LET i == firstRecommendation(s, 1)
    IN  IF i = 0 THEN <<>>
        ELSE LET a == RecommendationGroupStart(s, i)
             IN  SubSeq(s, a, LineEnd(s, a) - 1)

\* s.replace(/\.$/, '')
stripFinalDot(s) == IF Len(s) > 0 /\ s[Len(s)] = "." THEN SubSeq(s, 1, Len(s) - 1) ELSE s

\* an absent and an empty packingNotes are both <<>>
getMixedSummary(packingNotes) ==
    IF packingNotes = <<>> THEN MIXED_FLEET_REQUIRED
    ELSE LET m1 == recommendationMatch(packingNotes)
         IN  IF m1 # <<>> THEN stripFinalDot(trim(m1)) ELSE MIXED_FLEET_REQUIRED

-----------------------------------------------------------------------------
(* parseCombinedRecommendation: summary -> ordered (type, count) entries *)

AND_WORD == <<"a", "n", "d">>

\* /\band\b/i matches at position i
IsAndAt(s, i) ==
    /\ MatchesAt(s, i, AND_WORD)
    /\ (i = 1 \/ ~IsWordChar(s[i - 1]))
    /\ (i + Len(AND_WORD) > Len(s) \/ ~IsWordChar(s[i + Len(AND_WORD)]))

\* s.substring(from - 1).split(/\band\b/i)
RECURSIVE splitOnAnd(_, _)
splitOnAnd(s, from) ==
    LET next == {i \in from..Len(s) : IsAndAt(s, i)}
    IN  IF next = {} THEN <<Slice(s, from, Len(s))>>
        ELSE <<Slice(s, from, SetMin(next) - 1)>> \o splitOnAnd(s, SetMin(next) + Len(AND_WORD))

\* (?:x|×) under the /i flag; "U+00D7" stands for the one character ×
IsTimes(c) == c \in {"x", "X", "U+00D7"}
\* [A-Za-z ]
IsNameChar(c) == IsLetter(c) \/ c = " "
\* (?:\(|\.|,|$) apart from the end of the text
IsTerminator(c) == c \in {"(", ".", ","}

\* the position after the run of digits that starts at i
RECURSIVE DigitRunEnd(_, _)
DigitRunEnd(s, i) ==
    IF i > Len(s) \/ ~IsDigit(s[i]) THEN i ELSE DigitRunEnd(s, i + 1)

\* the position after the run of [A-Za-z ] that starts at b
RECURSIVE NameRunEnd(_, _)
NameRunEnd(s, b) ==
    IF b > Len(s) \/ ~IsNameChar(s[b]) THEN b ELSE NameRunEnd(s, b + 1)

\* ([A-Za-z ]+?)(?:\(|\.|,|$) matches with the group starting at b
NameGroupMatches(s, b) ==
    /\ b <= Len(s)
    /\ IsNameChar(s[b])
    /\ LET r == NameRunEnd(s, b) IN r > Len(s) \/ IsTerminator(s[r])

\* group starts reachable when the first \s* ends at a and (?:x|×) is taken
StartsAfterTimes(s, a) ==
    IF a <= Len(s) /\ IsTimes(s[a])
    THEN {b \in (a + 1)..SpaceRunEnd(s, a + 1) : NameGroupMatches(s, b)}
    ELSE {}

\* group starts reachable when the first \s* ends at a and (?:x|×) is skipped
StartsWithoutTimes(s, a) == {b \in a..SpaceRunEnd(s, a) : NameGroupMatches(s, b)}

\* where m[2] starts when the digits end before position e, in the order the
\* backtracking tries: first \s* longest first, × taken before skipped, second
\* \s* longest first; 0 when nothing matches
NameGroupStart(s, e) ==
    LET good == {a \in e..SpaceRunEnd(s, e) :
                    StartsAfterTimes(s, a) \cup StartsWithoutTimes(s, a) # {}}
    IN  IF good = {} THEN 0
        ELSE LET a == SetMax(good)
             IN  IF StartsAfterTimes(s, a) # {} THEN SetMax(StartsAfterTimes(s, a))
                 ELSE SetMax(StartsWithoutTimes(s, a))

\* part.match(/(\d+)\s*(?:x|×)?\s*([A-Za-z ]+?)(?:\(|\.|,|$)/i)
structuredMatch(part) ==
    LET starts == {i \in 1..Len(part) :
                      IsDigit(part[i]) /\ NameGroupStart(part, DigitRunEnd(part, i)) # 0}
    IN  IF starts = {} THEN [matched |-> FALSE]
        ELSE LET i == SetMin(starts)
                 e == DigitRunEnd(part, i)
                 b == NameGroupStart(part, e)
             IN  [matched |-> TRUE,
                  m1 |-> SubSeq(part, i, e - 1),
                  m2 |-> SubSeq(part, b, NameRunEnd(part, b) - 1)]

\* part.match(/(\d+)/): the first run of digits, <<>> when there is none
firstInteger(part) ==
    LET ds == {i \in 1..Len(part) : IsDigit(part[i])}
    IN  IF ds = {} THEN <<>> ELSE SubSeq(part, SetMin(ds), DigitRunEnd(part, SetMin(ds)) - 1)

FULL_WORD == <<"f", "u", "l", "l">>
HALF_WORD == <<"h", "a", "l", "f">>
LTL_WORD == <<"l", "t", "l">>
\* the four spellings /less[- ]than[- ]truck/i accepts
LESS_THAN_TRUCK ==
    {<<"l", "e", "s", "s", " ", "t", "h", "a", "n", " ", "t", "r", "u", "c", "k">>, <<"l", "e",
       "s", "s", "-", "t", "h", "a", "n", "-", "t", "r", "u", "c", "k">>,
     <<"l", "e", "s", "s", " ", "t", "h", "a", "n", "-", "t", "r", "u", "c", "k">>, <<"l", "e",
       "s", "s", "-", "t", "h", "a", "n", " ", "t", "r", "u", "c", "k">>}

\* lines 108-122 with the order of the Full and Half tests as written but the
\* count taken only from the structured match
clauseEntries_NoCount(part) ==
    LET m == structuredMatch(part)
        raw == IF m.matched THEN trim(m.m2) ELSE part
    IN  IF Contains(raw, FULL_WORD) THEN <<[type |-> "Full Truck", count |-> 1]>>
        ELSE IF Contains(raw, HALF_WORD) THEN <<[type |-> "Half Truck", count |-> 1]>>
        ELSE IF Contains(raw, LTL_WORD) \/ \E w \in LESS_THAN_TRUCK : Contains(raw, w)
        THEN <<[type |-> "LTL", count |-> 1]>>
        ELSE <<>>

\* lines 108-122 without the fallback to any integer of the clause (line 115)
clauseEntries_NoFallbackInteger(part) ==
    LET m == structuredMatch(part)
        count == IF m.matched THEN parseInt(m.m1) ELSE 0
        raw == IF m.matched THEN trim(m.m2) ELSE part
        countOr1 == IF count = 0 THEN 1 ELSE count
    IN  IF Contains(raw, FULL_WORD) THEN <<[type |-> "Full Truck", count |-> countOr1]>>
        ELSE IF Contains(raw, HALF_WORD) THEN <<[type |-> "Half Truck", count |-> countOr1]>>
        ELSE IF Contains(raw, LTL_WORD) \/ \E w \in LESS_THAN_TRUCK : Contains(raw, w)
        THEN <<[type |-> "LTL", count |-> countOr1]>>
        ELSE <<>>

\* lines 108-122 with a final else that files an unrecognised phrase as Full Truck
clauseEntries_DefaultsToFull(part) ==
    LET m == structuredMatch(part)
        m2 == firstInteger(part)
        count == IF m.matched THEN parseInt(m.m1)
                 ELSE IF m2 # <<>> THEN parseInt(m2) ELSE 0
        raw == IF m.matched THEN trim(m.m2) ELSE part
        countOr1 == IF count = 0 THEN 1 ELSE count
    IN  IF Contains(raw, HALF_WORD) THEN <<[type |-> "Half Truck", count |-> countOr1]>>
        ELSE IF Contains(raw, LTL_WORD) \/ \E w \in LESS_THAN_TRUCK : Contains(raw, w)
        THEN <<[type |-> "LTL", count |-> countOr1]>>
        ELSE <<[type |-> "Full Truck", count |-> countOr1]>>

\* the body of the loop over parts (lines 107-122): the entries one clause adds
clauseEntries(part) ==
    LET m == structuredMatch(part)
        m2 == firstInteger(part)
        count == IF m.matched THEN parseInt(m.m1)
                 ELSE IF m2 # <<>> THEN parseInt(m2) ELSE 0
        raw == IF m.matched THEN trim(m.m2) ELSE part
        countOr1 == IF count = 0 THEN 1 ELSE count
    IN  IF Contains(raw, FULL_WORD) THEN <<[type |-> "Full Truck", count |-> countOr1]>>
        ELSE IF Contains(raw, HALF_WORD) THEN <<[type |-> "Half Truck", count |-> countOr1]>>
        ELSE IF Contains(raw, LTL_WORD) \/ \E w \in LESS_THAN_TRUCK : Contains(raw, w)
        THEN <<[type |-> "LTL", count |-> countOr1]>>
        ELSE <<>>

\* results after the loop over parts
RECURSIVE resultsOf(_)
resultsOf(parts) ==
    IF parts = <<>> THEN <<>>
    ELSE clauseEntries(trim(Head(parts))) \o resultsOf(Tail(parts))

\* lines 126-131 with "=" for "+=": the last count of a type replaces the sum
RECURSIVE aggregatedCount_LastWins(_, _)
aggregatedCount_LastWins(results, t) ==
    IF results = <<>> THEN 0
    ELSE LET rest == aggregatedCount_LastWins(Tail(results), t)
         IN  IF rest # 0 THEN rest
             ELSE IF Head(results).type = t
             THEN (IF Head(results).count = 0 THEN 1 ELSE Head(results).count)
             ELSE 0

\* aggregated[t] after the loop over results
RECURSIVE aggregatedCount(_, _)
aggregatedCount(results, t) ==
    IF results = <<>> THEN 0
    ELSE (IF Head(results).type = t
          THEN (IF Head(results).count = 0 THEN 1 ELSE Head(results).count)
          ELSE 0) + aggregatedCount(Tail(results), t)

\* ordered after the loop over results: each type once, in first-seen order
RECURSIVE orderedTypes(_, _)
orderedTypes(results, seen) ==
    IF results = <<>> THEN <<>>
    ELSE IF Head(results).type \in seen THEN orderedTypes(Tail(results), seen)
    ELSE <<Head(results).type>> \o orderedTypes(Tail(results), seen \cup {Head(results).type})

\* lines 125-132: aggregate counts preserving order
aggregate(results) ==
    LET ordered == orderedTypes(results, {})
    IN  [k \in 1..Len(ordered) |->
            [type |-> ordered[k], count |-> aggregatedCount(results, ordered[k])]]

parseCombinedRecommendation(packingNotes) ==
    IF packingNotes = <<>> THEN <<>>
    ELSE LET summary == getMixedSummary(packingNotes)
         IN  IF summary = <<>> THEN <<>>
             ELSE aggregate(resultsOf(splitOnAnd(summary, 1)))

-----------------------------------------------------------------------------
(* getMixedTypes: the truck types shown for a Mixed suggestion *)

FULL_TRUCK_WORDS == <<"f", "u", "l", "l", " ", "t", "r", "u", "c", "k">>
HALF_TRUCK_WORDS == <<"h", "a", "l", "f", " ", "t", "r", "u", "c", "k">>

\* /\bltl\b/i.test(s)
ContainsLtlWord(s) ==
    \E i \in 1..Len(s) :
        /\ MatchesAt(s, i, LTL_WORD)
        /\ (i = 1 \/ ~IsWordChar(s[i - 1]))
        /\ (i + Len(LTL_WORD) > Len(s) \/ ~IsWordChar(s[i + Len(LTL_WORD)]))

\* lines 94-98 with the LTL test moved in front of the Full and Half tests
keywordTypes_LtlFirst(packingNotes) ==
    (IF ContainsLtlWord(packingNotes) \/ \E w \in LESS_THAN_TRUCK : Contains(packingNotes, w)
     THEN <<"LTL">> ELSE <<>>)
    \o (IF Contains(packingNotes, FULL_TRUCK_WORDS) THEN <<"Full Truck">> ELSE <<>>)
    \o (IF Contains(packingNotes, HALF_TRUCK_WORDS) THEN <<"Half Truck">> ELSE <<>>)

\* lines 94-97: types after the three keyword tests on the whole text
keywordTypes(packingNotes) ==
    (IF Contains(packingNotes, FULL_TRUCK_WORDS) THEN <<"Full Truck">> ELSE <<>>)
    \o (IF Contains(packingNotes, HALF_TRUCK_WORDS) THEN <<"Half Truck">> ELSE <<>>)
    \o (IF ContainsLtlWord(packingNotes) \/ \E w \in LESS_THAN_TRUCK : Contains(packingNotes, w)
        THEN <<"LTL">> ELSE <<>>)

\* lines 92-98: the types for the parsed entries and the whole text
mixedTypesOf(parsed, packingNotes) ==
    IF Len(parsed) > 0 THEN [k \in 1..Len(parsed) |-> parsed[k].type]
    ELSE IF packingNotes = <<>> THEN <<"Full Truck", "LTL">>
    ELSE IF Len(keywordTypes(packingNotes)) = 0 THEN <<"Full Truck", "LTL">>
    ELSE keywordTypes(packingNotes)

getMixedTypes(packingNotes) ==
    mixedTypesOf(parseCombinedRecommendation(packingNotes), packingNotes)

-----------------------------------------------------------------------------
(* allocation: feet per truck and occupancy of each truck type *)

\* The quotients of the allocation are kept exact, as fractions [num, den] in
\* lowest terms with den > 0; a footage stays in hundredths of a foot.
RECURSIVE GCD(_, _)
GCD(a, b) == IF b = 0 THEN a ELSE GCD(b, a % b)

Abs(n) == IF n < 0 THEN -n ELSE n

\* n / d for d # 0
Frac(n, d) ==
    LET g == GCD(Abs(n), Abs(d))
        s == IF d < 0 THEN -1 ELSE 1
    IN  [num |-> s * (n \div g), den |-> s * (d \div g)]

ZeroFrac == [num |-> 0, den |-> 1]
OneFrac == [num |-> 1, den |-> 1]

FracMul(x, y) == Frac(x.num * y.num, x.den * y.den)
\* x / n for an integer n # 0
FracDivInt(x, n) == Frac(x.num, x.den * n)
FracLeq(x, y) == x.num * y.den <= y.num * x.den
\* Math.min(1, x)
MinOne(x) == IF FracLeq(OneFrac, x) THEN OneFrac ELSE x

\* TRUCK_CAPACITY in hundredths of a foot; 0 stands for a missing key
TRUCK_CAPACITY(type) ==
    CASE type = "Full Truck" -> 4800
      [] type = "Half Truck" -> 2400
      [] type = "LTL" -> 1400
      [] OTHER -> 0

\* TRUCK_CAPACITY[type] || 48
capOf(type) == IF TRUCK_CAPACITY(type) # 0 THEN TRUCK_CAPACITY(type) ELSE 4800

\* line 153: entries.reduce((s, e) => s + e.count * (TRUCK_CAPACITY[e.type] || 0), 0)
RECURSIVE totalCapacityOf(_)
totalCapacityOf(entries) ==
    IF entries = <<>> THEN 0
    ELSE Head(entries).count * TRUCK_CAPACITY(Head(entries).type)
           + totalCapacityOf(Tail(entries))

\* lines 155-159 without the Math.min of line 159
mixedEntryAllocation_Unclamped(e, totalFeet, totalCapacity) ==
    LET cap == capOf(e.type)
        shareTotal == IF totalCapacity > 0 THEN Frac(e.count * cap, totalCapacity)
                      ELSE ZeroFrac
        assignedTotalFeet == FracMul(Frac(totalFeet, 1), shareTotal)
        perTruckFeet == IF e.count > 0 THEN FracDivInt(assignedTotalFeet, e.count)
                        ELSE ZeroFrac
        occupancy == IF cap > 0 THEN FracDivInt(perTruckFeet, cap) ELSE ZeroFrac
    IN  [perTruckFeet |-> perTruckFeet, occupancy |-> occupancy]

\* lines 155-159 with the class footage not divided among the trucks of the class
mixedEntryAllocation_NotPerTruck(e, totalFeet, totalCapacity) ==
    LET cap == capOf(e.type)
        shareTotal == IF totalCapacity > 0 THEN Frac(e.count * cap, totalCapacity)
                      ELSE ZeroFrac
        assignedTotalFeet == FracMul(Frac(totalFeet, 1), shareTotal)
        perTruckFeet == IF e.count > 0 THEN assignedTotalFeet ELSE ZeroFrac
        occupancy == IF cap > 0 THEN MinOne(FracDivInt(perTruckFeet, cap)) ELSE ZeroFrac
    IN  [perTruckFeet |-> perTruckFeet, occupancy |-> occupancy]

\* lines 155-159: the allocation of one entry of a Mixed suggestion
mixedEntryAllocation(e, totalFeet, totalCapacity) ==
    LET cap == capOf(e.type)
        shareTotal == IF totalCapacity > 0 THEN Frac(e.count * cap, totalCapacity)
                      ELSE ZeroFrac
        assignedTotalFeet == FracMul(Frac(totalFeet, 1), shareTotal)
        perTruckFeet == IF e.count > 0 THEN FracDivInt(assignedTotalFeet, e.count)
                        ELSE ZeroFrac
        occupancy == IF cap > 0 THEN MinOne(FracDivInt(perTruckFeet, cap)) ELSE ZeroFrac
    IN  [perTruckFeet |-> perTruckFeet, occupancy |-> occupancy]

\* lines 164-166 dividing by the capacity only, not by trucksNeeded
singleAllocation_WholeLoad(truckType, trucksNeeded, totalFeet) ==
    LET cap == capOf(truckType)
        perTruckFeet == IF trucksNeeded > 0 THEN Frac(totalFeet, 1) ELSE ZeroFrac
        occupancy == IF cap > 0 THEN MinOne(FracDivInt(perTruckFeet, cap)) ELSE ZeroFrac
    IN  [perTruckFeet |-> perTruckFeet, occupancy |-> occupancy]

\* lines 164-166: the allocation of a single-type suggestion
singleAllocation(truckType, trucksNeeded, totalFeet) ==
    LET cap == capOf(truckType)
        perTruckFeet == IF trucksNeeded > 0 THEN Frac(totalFeet, trucksNeeded) ELSE ZeroFrac
        occupancy == IF cap > 0 THEN MinOne(FracDivInt(perTruckFeet, cap)) ELSE ZeroFrac
    IN  [perTruckFeet |-> perTruckFeet, occupancy |-> occupancy]

\* lines 148-169 with a Mixed suggestion without entries allocated as Full Truck
allocationOf_DefaultEntry(s, parsed) ==
    IF ~s.present THEN [t \in {} |-> ZeroFrac]
    ELSE IF s.truckType = "Mixed" /\ Len(parsed) > 0
    THEN LET totalCapacity == totalCapacityOf(parsed)
             last(t) == CHOOSE k \in 1..Len(parsed) :
                            /\ parsed[k].type = t
                            /\ \A j \in (k + 1)..Len(parsed) : parsed[j].type # t
         IN  [t \in {parsed[k].type : k \in 1..Len(parsed)} |->
                 mixedEntryAllocation(parsed[last(t)], s.linearFeet, totalCapacity)]
    ELSE IF s.truckType = "Mixed"
    THEN [t \in {"Full Truck"} |->
             singleAllocation("Full Truck", s.trucksNeeded, s.linearFeet)]
    ELSE [t \in {s.truckType} |->
             singleAllocation(s.truckType, s.trucksNeeded, s.linearFeet)]

\* lines 148-169: the allocation map for suggestion s and the parsed entries;
\* a later entry of the same type overwrites an earlier one
allocationOf(s, parsed) ==
    IF ~s.present THEN [t \in {} |-> ZeroFrac]
    ELSE IF s.truckType = "Mixed"
    THEN LET totalCapacity == totalCapacityOf(parsed)
             last(t) == CHOOSE k \in 1..Len(parsed) :
                            /\ parsed[k].type = t
                            /\ \A j \in (k + 1)..Len(parsed) : parsed[j].type # t
         IN  [t \in {parsed[k].type : k \in 1..Len(parsed)} |->
                 mixedEntryAllocation(parsed[last(t)], s.linearFeet, totalCapacity)]
    ELSE [t \in {s.truckType} |->
             singleAllocation(s.truckType, s.trucksNeeded, s.linearFeet)]

-----------------------------------------------------------------------------
(* getTruckSuggestion: routing of the items, the two flows, the combination *)

\* the catalog: per SKU the attributes the routing filter reads; 0 and "" are
\* the falsy values of a missing attribute, and a SKU without an entry has none.
\* TPO-NEG and TPO-ZERO are entries whose packing rate is -4 and 0.
skuData ==
    [sku \in {"TPO-10", "TPO-NEG", "TPO-ZERO", "UNLISTED"} |->
        CASE sku = "TPO-10" ->
               [category |-> "TPO", rollsPerPallet |-> 16, qtyPerPallet |-> 0,
                palletLength |-> 10, weightLbs |-> 300]
          [] sku = "TPO-NEG" ->
               [category |-> "TPO", rollsPerPallet |-> -4, qtyPerPallet |-> 0,
                palletLength |-> 10, weightLbs |-> 300]
          [] sku = "TPO-ZERO" ->
               [category |-> "TPO", rollsPerPallet |-> 0, qtyPerPallet |-> 0,
                palletLength |-> 10, weightLbs |-> 300]
          [] OTHER ->
               [category |-> "", rollsPerPallet |-> 0, qtyPerPallet |-> 0,
                palletLength |-> 0, weightLbs |-> 0]]

SKUS == DOMAIN skuData

Item == [sku : SKUS, quantity : {1}]

\* the item lists the component can hand over
ItemLists == UNION {[1..n -> Item] : n \in 0..MaxItems}

\* the filter of lines 82-87 asking for a positive packing rate
isPackable_PositiveRate(item) ==
    LET data == skuData[item.sku]
    IN  /\ data.category # ""
        /\ (data.rollsPerPallet > 0 \/ data.qtyPerPallet > 0)
        /\ data.palletLength # 0
        /\ data.weightLbs # 0

\* the filter of lines 82-87
isPackable(item) ==
    LET data == skuData[item.sku]
    IN  /\ data.category # ""
        /\ (data.rollsPerPallet # 0 \/ data.qtyPerPallet # 0)
        /\ data.palletLength # 0
        /\ data.weightLbs # 0

itemsForPackingOf(its) == SelectSeq(its, isPackable)

\* lines 99-101: the items whose SKU is not among the packing items
itemsForEstimationOf(its) ==
    LET forPacking == itemsForPackingOf(its)
        notPacked(item) == ~\E k \in 1..Len(forPacking) : forPacking[k].sku = item.sku
    IN  SelectSeq(its, notPacked)

\* where a footage may lie inside its 48 ft: on the start of a truck and a
\* hundredth above, at 2 ft, a hundredth below 14 ft, at 14 ft, at 24 ft and a
\* hundredth above, at 42 ft, and a hundredth below the next truck
BoundaryOffsets == {0, 1, 200, 1399, 1400, 2400, 2401, 4200, 4799}

\* footage a flow may report: the boundary footages of every truck up to the
\* bound, and the negative hundredths down to the lower bound
FeetDomain ==
    {c \in 0..MaxCents : c % FULL_TRUCK_FEET \in BoundaryOffsets}
    \cup {-c : c \in 1..MaxNegCents}

\* what the packing flow may write in packingNotes
PackingNotesTexts ==
    {<<"2", " ", "p", "a", "l", "l", "e", "t", "s", ",", " ", "1", "0", " ", "f", "t", ".">>,
     <<"P", "l", "a", "n", ":", "\n", "T", "h", "e", " ", "r", "e", "c", "o", "m", "m", "e", "n",
       "d", "a", "t", "i", "o", "n", " ", "i", "s", ":", " ", "3", " ", "L", "T", "L", " ", "a",
       "n", "d", " ", "2", " ", "H", "a", "l", "f", " ", "T", "r", "u", "c", "k", ".">>}

\* the truckType and trucksNeeded / numberOfTrucks a flow may recommend itself
FlowTrucks ==
    {[truckType |-> "LTL", trucksNeeded |-> 1],
     [truckType |-> "Full Truck", trucksNeeded |-> 9]}

\* what the estimation flow may write in reasoning
ReasoningTexts == {<<"E", "s", "t", "i", "m", "a", "t", "e", "d", " ", "1", " ", "F", "u", "l",
                     "l", " ", "T", "r", "u", "c", "k", ".">>}

NoResult == [present |-> FALSE]

\* outputs of providePackingSuggestions; the flow's own truckType and
\* trucksNeeded vary with the first of the notes
PackingResults ==
    {[present |-> TRUE, truckType |-> t.truckType, trucksNeeded |-> t.trucksNeeded,
      linearFeet |-> f, packingNotes |-> n] :
        t \in FlowTrucks, f \in FeetDomain, n \in PackingNotesTexts}
    \ {r \in [present : {TRUE}, truckType : {"Full Truck"}, trucksNeeded : {9},
              linearFeet : FeetDomain, packingNotes : PackingNotesTexts] :
          r.packingNotes # <<"2", " ", "p", "a", "l", "l", "e", "t", "s", ",", " ", "1", "0", " ",
                             "f", "t", ".">>}

\* outputs of estimateTruckRequirements (the fields of truckRecommendation): its
\* output schema declares no linearFeet, so the field may be missing
\* (hasLinearFeet = FALSE)
EstimationResults ==
    {[present |-> TRUE, truckType |-> "LTL", numberOfTrucks |-> 1,
      hasLinearFeet |-> FALSE, linearFeet |-> 0, reasoning |-> r] :
        r \in ReasoningTexts}
    \cup {[present |-> TRUE, truckType |-> "Full Truck", numberOfTrucks |-> 9,
           hasLinearFeet |-> TRUE, linearFeet |-> f, reasoning |-> r] :
        f \in {1000}, r \in ReasoningTexts}

\* the messages a failing flow's error may carry
FlowErrors == {"DEADLINE_EXCEEDED", "SAFETY", "other"}

\* the catch block of lines 145-156: the error thrown to the caller
rethrown(error) ==
    CASE error = "DEADLINE_EXCEEDED" -> "The calculation took too long to complete."
      [] error = "SAFETY" -> "The request was blocked by safety settings."
      [] OTHER -> "An error occurred while calculating the truck requirements."

\* lines 119-125 with a rejected await of the packing flow not leaving the try block
afterPacking_SwallowsFailure(failed, forEstimation) ==
    IF Len(forEstimation) > 0 THEN "estimation" ELSE "combine"

\* lines 119-125 and 145: where the call stands once the packing flow has
\* settled (or was skipped): a rejected await leaves the try block for the catch
afterPacking(failed, forEstimation) ==
    IF failed THEN "threw"
    ELSE IF Len(forEstimation) > 0 THEN "estimation" ELSE "combine"

\* lines 127-129
packingFeetOf(pr) == IF pr.present THEN pr.linearFeet ELSE 0
estimationFeetOf(er) == IF er.present /\ er.hasLinearFeet THEN er.linearFeet ELSE 0

\* lines 127-131 with the packing flow's own truckType and trucksNeeded passed on
trucksOf_FromPackingFlow(pr, er) ==
    LET result == getTrucksForFeet(packingFeetOf(pr) + estimationFeetOf(er))
    IN  IF pr.present
        THEN [truckType |-> pr.truckType, trucksNeeded |-> pr.trucksNeeded,
              summary |-> result.summary]
        ELSE result

\* lines 127-131: { truckType, trucksNeeded, summary } for the two flow results
trucksOf(pr, er) == getTrucksForFeet(packingFeetOf(pr) + estimationFeetOf(er))

\* lines 133-136
combinedNotesOf(pr, er, total, summary) ==
    <<"-", "-", "-", " ", "C", "o", "m", "b", "i", "n", "e", "d", " ", "R", "e", "c", "o", "m",
      "m", "e", "n", "d", "a", "t", "i", "o", "n", " ", "-", "-", "-", "\n">>
    \o <<"B", "a", "s", "e", "d", " ", "o", "n", " ", "a", " ", "t", "o", "t", "a", "l", " ", "o",
         "f", " ">> \o toFixed2(total)
    \o <<" ", "l", "i", "n", "e", "a", "r", " ", "f", "e", "e", "t", ",", " ", "t", "h", "e", " ",
         "r", "e", "c", "o", "m", "m", "e", "n", "d", "a", "t", "i", "o", "n", " ", "i", "s", ":",
         " ">> \o summary \o <<".", "\n", "\n">>
    \o (IF pr.present
        THEN <<"-", "-", "-", " ", "D", "e", "t", "a", "i", "l", "e", "d", " ", "P", "a", "c", "k",
               "i", "n", "g", " ", "P", "l", "a", "n", " ", "(">> \o toFixed2(packingFeetOf(pr))
             \o <<" ", "f", "t", ")", " ", "-", "-", "-", "\n">> \o pr.packingNotes \o <<"\n",
                  "\n">>
        ELSE <<>>)
    \o (IF er.present
        THEN <<"-", "-", "-", " ", "A", "d", "d", "i", "t", "i", "o", "n", "a", "l", " ", "I", "t",
               "e", "m", "s", " ", "E", "s", "t", "i", "m", "a", "t", "i", "o", "n", " ",
               "(">> \o toFixed2(estimationFeetOf(er))
             \o <<" ", "f", "t", ")", " ", "-", "-", "-", "\n">> \o er.reasoning
        ELSE <<>>)

NoSuggestion == [present |-> FALSE]

\* the notes were not written from known clauses
NoClauses == [known |-> FALSE, clauses |-> <<>>]

\* no handler of the component has run
NoItem == [sku |-> "", quantity |-> 0]
NoOp == [op |-> "none", index |-> 0, item |-> NoItem]

Init ==
    /\ pc = "idle"
    /\ itemsWithData = <<>>
    /\ itemsForPacking = <<>>
    /\ itemsForEstimation = <<>>
    /\ packingCalls = 0
    /\ estimationCalls = 0
    /\ packingResult = NoResult
    /\ estimationResult = NoResult
    /\ totalLinearFeet = 0
    /\ trucks = NoResult
    /\ suggestion = NoSuggestion
    /\ thrown = "none"
    /\ mixedParsed = <<>>
    /\ mixedTypes = <<>>
    /\ allocation = allocationOf(NoSuggestion, <<>>)
    /\ writtenClauses = NoClauses
    /\ items = <<>>
    /\ isLoading = FALSE
    /\ pendingCalls = <<>>
    /\ suggestionItems = <<>>
    /\ lastOp = NoOp

\* getTruckSuggestion(items) up to its first await (lines 58-119)
Call ==
    /\ pc = "idle"
    /\ \E its \in ItemLists :
          /\ itemsWithData' = its
          /\ IF Len(its) = 0
             THEN /\ suggestion' = [present |-> TRUE, truckType |-> "LTL",
                                    trucksNeeded |-> 0,
                                    packingNotes |-> <<"N", "o", " ", "i", "t", "e", "m", "s", " ",
                                        "t", "o", " ", "c", "a", "l", "c", "u", "l", "a", "t", "e",
                                        ".">>,
                                    linearFeet |-> 0]
                  /\ pc' = "returned"
                  /\ UNCHANGED <<itemsForPacking, itemsForEstimation>>
             ELSE /\ itemsForPacking' = itemsForPackingOf(its)
                  /\ itemsForEstimation' = itemsForEstimationOf(its)
                  /\ suggestion' = suggestion
                  /\ pc' = IF Len(itemsForPackingOf(its)) > 0 THEN "packing"
                           ELSE afterPacking(FALSE, itemsForEstimationOf(its))
    /\ packingCalls' = packingCalls + (IF pc' = "packing" THEN 1 ELSE 0)
    /\ estimationCalls' = estimationCalls + (IF pc' = "estimation" THEN 1 ELSE 0)
    /\ UNCHANGED <<packingResult, estimationResult, totalLinearFeet, trucks, thrown>>
    /\ UNCHANGED <<renderVars, componentVars>>

\* await providePackingSuggestions resolves (lines 119-123)
PackingReturns ==
    /\ pc = "packing"
    /\ \E r \in PackingResults : packingResult' = r
    /\ pc' = afterPacking(FALSE, itemsForEstimation)
    /\ estimationCalls' = estimationCalls + (IF pc' = "estimation" THEN 1 ELSE 0)
    /\ UNCHANGED <<itemsWithData, itemsForPacking, itemsForEstimation, packingCalls,
                   estimationResult, totalLinearFeet, trucks, suggestion, thrown>>
    /\ UNCHANGED <<renderVars, componentVars>>

\* await providePackingSuggestions rejects: the catch block rethrows
PackingFails ==
    /\ pc = "packing"
    /\ \E e \in FlowErrors : thrown' = rethrown(e)
    /\ pc' = afterPacking(TRUE, itemsForEstimation)
    /\ estimationCalls' = estimationCalls + (IF pc' = "estimation" THEN 1 ELSE 0)
    /\ UNCHANGED <<itemsWithData, itemsForPacking, itemsForEstimation, packingCalls,
                   packingResult, estimationResult, totalLinearFeet, trucks, suggestion>>
    /\ UNCHANGED <<renderVars, componentVars>>

\* await estimateTruckRequirements resolves (lines 123-125)
EstimationReturns ==
    /\ pc = "estimation"
    /\ \E r \in EstimationResults : estimationResult' = r
    /\ pc' = "combine"
    /\ UNCHANGED <<itemsWithData, itemsForPacking, itemsForEstimation, packingCalls,
                   estimationCalls, packingResult, totalLinearFeet, trucks, suggestion,
                   thrown>>
    /\ UNCHANGED <<renderVars, componentVars>>

\* await estimateTruckRequirements rejects: the catch block rethrows
EstimationFails ==
    /\ pc = "estimation"
    /\ \E e \in FlowErrors : thrown' = rethrown(e)
    /\ pc' = "threw"
    /\ UNCHANGED <<itemsWithData, itemsForPacking, itemsForEstimation, packingCalls,
                   estimationCalls, packingResult, estimationResult, totalLinearFeet,
                   trucks, suggestion>>
    /\ UNCHANGED <<renderVars, componentVars>>

\* the rest of getTruckSuggestion after the flows (lines 127-143)
Combine ==
    /\ pc = "combine"
    /\ LET total == packingFeetOf(packingResult) + estimationFeetOf(estimationResult)
           result == trucksOf(packingResult, estimationResult)
       IN  /\ totalLinearFeet' = total
           /\ trucks' = [present |-> TRUE, truckType |-> result.truckType,
                         trucksNeeded |-> result.trucksNeeded, summary |-> result.summary]
           /\ suggestion' = [present |-> TRUE,
                             truckType |-> result.truckType,
                             trucksNeeded |-> result.trucksNeeded,
                             packingNotes |-> combinedNotesOf(packingResult, estimationResult,
                                                              total, result.summary),
                             linearFeet |-> total]
    /\ pc' = "returned"
    /\ UNCHANGED <<itemsWithData, itemsForPacking, itemsForEstimation, packingCalls,
                   estimationCalls, packingResult, estimationResult, thrown>>
    /\ UNCHANGED <<renderVars, componentVars>>

\* the component renders the returned suggestion (truck-calculator.tsx 135-169
\* and the getMixedTypes call of line 314)
Render ==
    /\ pc = "returned"
    /\ mixedParsed' = IF suggestion.present /\ suggestion.truckType = "Mixed"
                      THEN parseCombinedRecommendation(suggestion.packingNotes)
                      ELSE <<>>
    /\ allocation' = allocationOf(suggestion, mixedParsed')
    /\ mixedTypes' = IF suggestion.present /\ suggestion.truckType = "Mixed"
                     THEN getMixedTypes(suggestion.packingNotes)
                     ELSE <<>>
    /\ pc' = "rendered"
    /\ UNCHANGED <<itemsWithData, itemsForPacking, itemsForEstimation, packingCalls,
                   estimationCalls, packingResult, estimationResult, totalLinearFeet,
                   trucks, suggestion, thrown, writtenClauses>>
    /\ UNCHANGED componentVars

-----------------------------------------------------------------------------
(* The component alone: Render applied to suggestions drawn from bounded sets *)

\* longest list of clauses a summary sentence is written from
MaxClauses == 3
\* largest trucksNeeded of a single-type suggestion handed to the component
MaxTrucks == 3

\* the clauses a summary sentence is written from: the text, the truck class
\* its phrase names ("none": no class) and the integer it states (-1: none).
\* The forms '1 Full Truck(s)', '1 x Full Truck(s)' and '1 LTL' are those of
\* the comment of line 107; the others put the integer behind the phrase,
\* leave it out, state 0, use the sign U+00D7 or name no truck class.
Clause ==
    {[text |-> <<"2", " ", "F", "u", "l", "l", " ", "T", "r", "u", "c", "k", "(", "s", ")">>,
                 class |-> "Full Truck", n |-> 2],
     [text |-> <<"1", " ", "x", " ", "F", "u", "l", "l", " ", "T", "r", "u", "c", "k", "(", "s",
                 ")">>, class |-> "Full Truck", n |-> 1],
     [text |-> <<"1", " ", "L", "T", "L">>, class |-> "LTL", n |-> 1],
     [text |-> <<"1", "2", "U+00D7">> \o <<"h", "a", "l", "f", " ", "t", "r", "u", "c", "k">>,
                 class |-> "Half Truck", n |-> 12],
     [text |-> <<"0", " ", "L", "T", "L">>, class |-> "LTL", n |-> 0],
     [text |-> <<"H", "a", "l", "f", " ", "T", "r", "u", "c", "k", " ", "4">>,
                 class |-> "Half Truck", n |-> 4],
     [text |-> <<"f", "u", "l", "l", " ", "t", "r", "u", "c", "k">>, class |-> "Full Truck",
                 n |-> -1],
     [text |-> <<"3", " ", "v", "a", "n", "s">>, class |-> "none", n |-> 3]}

ClauseLists == UNION {[1..k -> Clause] : k \in 0..MaxClauses}

clauseText(c) == c.text

\* the clauses joined by " and "
RECURSIVE joinClauses(_)
joinClauses(cs) ==
    IF cs = <<>> THEN <<>>
    ELSE IF Len(cs) = 1 THEN clauseText(cs[1])
    ELSE clauseText(cs[1]) \o <<" ", "a", "n", "d", " ">> \o joinClauses(Tail(cs))

\* notes whose recommendation sentence is written from the clauses cs
notesOf(cs) ==
    <<"P", "l", "a", "n", " ", "r", "e", "a", "d", "y", ".", "\n", "T", "h", "e", " ", "r", "e",
      "c", "o", "m", "m", "e", "n", "d", "a", "t", "i", "o", "n", " ", "i", "s", ":",
      " ">> \o joinClauses(cs) \o <<".", "\n", "L", "o", "a", "d", " ", "t", "h", "e", " ", "L",
      "T", "L", " ", "l", "a", "s", "t", ".">>

\* notes of no known structure; <<>> is the absent text
FreeNotes ==
    {<<>>,
     <<"M", "i", "x", "e", "d", " ", "f", "l", "e", "e", "t", ".">>,
     <<"U", "s", "e", " ", "a", " ", "h", "a", "l", "f", " ", "t", "r", "u", "c", "k", " ", "a",
       "n", "d", " ", "a", " ", "F", "u", "l", "l", " ", "T", "r", "u", "c", "k", ".">>,
     <<"O", "n", "e", " ", "l", "e", "s", "s", "-", "t", "h", "a", "n", "-", "t", "r", "u", "c",
       "k", " ", "l", "o", "a", "d", ".">>,
     <<"l", "t", "l", "s", " ", "o", "n", "l", "y", ",", " ", "n", "o", " ", "f", "u", "l", "l",
       " ", "t", "r", "u", "c", "k", "s">>,
     <<"S", "e", "n", "d", " ", "t", "h", "e", " ", "L", "T", "L", " ", "f", "i", "r", "s", "t",
       ",", " ", "t", "h", "e", "n", " ", "a", " ", "h", "a", "l", "f", " ", "t", "r", "u", "c",
       "k", ".">>,
     <<"r", "e", "c", "o", "m", "m", "e", "n", "d", "a", "t", "i", "o", "n", " ", "i", "s">>,
     <<"r", "e", "c", "o", "m", "m", "e", "n", "d", "a", "t", "i", "o", "n", " ", "i", "s", ":",
       " ", "a", "n", "d", " ", "a", "n", "d", " ", ".">>,
     <<"R", "e", "c", "o", "m", "m", "e", "n", "d", "a", "t", "i", "o", "n", " ", "i", "s", " ",
       "2", " ", "b", "i", "g", " ", "(", "f", "u", "l", "l", ")", " ", "t", "r", "u", "c", "k",
       "s", " ", "a", "n", "d", " ", "1", " ", "L", "T", "L", ",", " ", "h", "a", "l", "f", " ",
       "t", "r", "u", "c", "k", " ", "s", "p", "a", "r", "e", ".">>,
     <<"T", "h", "e", " ", "r", "e", "c", "o", "m", "m", "e", "n", "d", "a", "t", "i", "o", "n",
       " ", "i", "s", ":", " ", "2", " ", "v", "a", "n", "s", ".", "\n", "A", " ", "H", "a", "l",
       "f", " ", "T", "r", "u", "c", "k", " ", "i", "s", " ", "s", "p", "a", "r", "e", ".">>,
     <<"T", "h", "e", " ", "r", "e", "c", "o", "m", "m", "e", "n", "d", "a", "t", "i", "o", "n",
       " ", "i", "s", ":", "\n", "2", " ", "F", "u", "l", "l", " ", "T", "r", "u", "c", "k", "(",
       "s", ")", "\n", "L", "o", "a", "d", " ", "1", " ", "L", "T", "L", " ", "l", "a", "s", "t",
       ".">>}

\* linearFeet of the suggestions handed to the component, in hundredths
MixedFeet == {0, 5000, 30000}
SingleFeet == {-100, 0, 1399, 1400, 4800, 5000, 20000}

MixedSuggestion(notes, feet) ==
    [present |-> TRUE, truckType |-> "Mixed", trucksNeeded |-> 2,
     packingNotes |-> notes, linearFeet |-> feet]

SingleSuggestion(type, n, feet) ==
    [present |-> TRUE, truckType |-> type, trucksNeeded |-> n,
     packingNotes |-> <<"1", " ", "t", "r", "u", "c", "k", ".">>, linearFeet |-> feet]

\* the component holds a suggestion that is about to be rendered
RenderInit ==
    /\ pc = "returned"
    /\ itemsWithData = <<>>
    /\ itemsForPacking = <<>>
    /\ itemsForEstimation = <<>>
    /\ packingCalls = 0
    /\ estimationCalls = 0
    /\ packingResult = NoResult
    /\ estimationResult = NoResult
    /\ totalLinearFeet = 0
    /\ trucks = NoResult
    /\ thrown = "none"
    /\ mixedParsed = <<>>
    /\ mixedTypes = <<>>
    /\ allocation = allocationOf(NoSuggestion, <<>>)
    /\ items = <<>>
    /\ isLoading = FALSE
    /\ pendingCalls = <<>>
    /\ suggestionItems = <<>>
    /\ lastOp = NoOp
    /\ \/ \E cs \in ClauseLists, feet \in MixedFeet :
             /\ suggestion = MixedSuggestion(notesOf(cs), feet)
             /\ writtenClauses = [known |-> TRUE, clauses |-> cs]
       \/ \E notes \in FreeNotes, feet \in MixedFeet :
             /\ suggestion = MixedSuggestion(notes, feet)
             /\ writtenClauses = NoClauses
       \/ \E type \in {"LTL", "Half Truck", "Full Truck"}, n \in 0..MaxTrucks,
             feet \in SingleFeet :
             /\ suggestion = SingleSuggestion(type, n, feet)
             /\ writtenClauses = NoClauses

-----------------------------------------------------------------------------
(* The TruckCalculator component: its item list and handleCalculate *)

\* the items the form can submit
FormItems == {it \in Item : it.sku \in {"TPO-10", "UNLISTED"}}

\* the suggestions a call of getTruckSuggestion may resolve with
CalculationResults ==
    {SingleSuggestion("LTL", 1, 1000), SingleSuggestion("Full Truck", 1, 4800)}

\* the sequence s without its k-th element
RemoveAt(s, k) == [j \in 1..(Len(s) - 1) |-> IF j < k THEN s[j] ELSE s[j + 1]]

\* the updater of line 50: [...prevItems, data]
addItem(prevItems, data) == Append(prevItems, data)

\* the updater of line 55 removing every item equal to the one at the index
removeItem_ByValue(prevItems, index) ==
    LET differs(it) == it # prevItems[index]
    IN  SelectSeq(prevItems, differs)

\* the updater of line 55: prevItems.filter((_, i) => i !== index); the model
\* counts the index from 1
removeItem(prevItems, index) ==
    IF index \in 1..Len(prevItems) THEN RemoveAt(prevItems, index) ELSE prevItems

\* line 291 with the button left enabled while a calculation runs
calculateDisabled_WhileEmptyOnly(its, loading) == Len(its) = 0

\* line 291: disabled={items.length === 0 || isLoading}
calculateDisabled(its, loading) == Len(its) = 0 \/ loading

\* lines 59-69 without setSuggestion(null)
handleCalculate_KeepsSuggestion(its, s, loading) ==
    IF Len(its) = 0
    THEN [suggestion |-> s, isLoading |-> loading, called |-> FALSE]
    ELSE [suggestion |-> s, isLoading |-> TRUE, called |-> TRUE]

\* lines 59-69, handleCalculate up to its await: the new suggestion and
\* isLoading, and whether getTruckSuggestion(items) is called
handleCalculate(its, s, loading) ==
    IF Len(its) = 0
    THEN [suggestion |-> s, isLoading |-> loading, called |-> FALSE]
    ELSE [suggestion |-> NoSuggestion, isLoading |-> TRUE, called |-> TRUE]

\* the form is submitted with valid data (lines 49-52)
AddItem ==
    /\ Len(items) < MaxListLen
    /\ \E data \in FormItems :
          /\ items' = addItem(items, data)
          /\ lastOp' = [op |-> "addItem", index |-> 0, item |-> data]
    /\ UNCHANGED <<suggestion, isLoading, pendingCalls, suggestionItems>>
    /\ UNCHANGED <<callVars, renderVars>>

\* the remove button of a row of the table is clicked (lines 54-56, 275)
RemoveItem ==
    /\ \E index \in 1..Len(items) :
          /\ items' = removeItem(items, index)
          /\ lastOp' = [op |-> "removeItem", index |-> index, item |-> NoItem]
    /\ UNCHANGED <<suggestion, isLoading, pendingCalls, suggestionItems>>
    /\ UNCHANGED <<callVars, renderVars>>

\* the Calculate button is clicked: handleCalculate up to its await (lines
\* 58-70); the button of lines 288-293 takes no click while it is disabled
HandleCalculate ==
    /\ ~calculateDisabled(items, isLoading)
    /\ Len(pendingCalls) < MaxPending
    /\ LET h == handleCalculate(items, suggestion, isLoading)
       IN  /\ suggestion' = h.suggestion
           /\ isLoading' = h.isLoading
           /\ pendingCalls' = IF h.called THEN Append(pendingCalls, [items |-> items])
                              ELSE pendingCalls
           /\ suggestionItems' = suggestionItems
    /\ lastOp' = [op |-> "handleCalculate", index |-> 0, item |-> NoItem]
    /\ UNCHANGED items
    /\ UNCHANGED <<callVars, renderVars>>

\* a call of getTruckSuggestion resolves: lines 70-71 and the finally of line 78
CalculationResolves ==
    /\ \E k \in 1..Len(pendingCalls), result \in CalculationResults :
          /\ suggestion' = result
          /\ suggestionItems' = pendingCalls[k].items
          /\ pendingCalls' = RemoveAt(pendingCalls, k)
    /\ isLoading' = FALSE
    /\ lastOp' = [op |-> "resolved", index |-> 0, item |-> NoItem]
    /\ UNCHANGED items
    /\ UNCHANGED <<callVars, renderVars>>

\* a call of getTruckSuggestion rejects: the catch of lines 72-77 shows a
\* toast, the finally of line 78 runs
CalculationRejects ==
    /\ \E k \in 1..Len(pendingCalls) : pendingCalls' = RemoveAt(pendingCalls, k)
    /\ isLoading' = FALSE
    /\ lastOp' = [op |-> "rejected", index |-> 0, item |-> NoItem]
    /\ UNCHANGED <<items, suggestion, suggestionItems>>
    /\ UNCHANGED <<callVars, renderVars>>

-----------------------------------------------------------------------------
(* Vocabulary of the properties *)

\* getTrucksForFeet has been applied to totalLinearFeet
Decomposed == trucks.present

\* floor(totalLinearFeet / 48) and totalLinearFeet mod 48 of the decomposition policy
PolicyFullTrucks == totalLinearFeet \div FULL_TRUCK_FEET
PolicyRemainder == totalLinearFeet % FULL_TRUCK_FEET

\* the overflow class of a positive remainder: below 14 ft LTL, 14..24 ft Half, above Full
PolicyOverflowClass(remainder) ==
    IF remainder < 1400 THEN "LTL" ELSE IF remainder <= 2400 THEN "Half Truck" ELSE "Full Truck"

\* the text of "<count> Full Truck(s)"
FullTrucksText(count) == NatToString(count) \o <<" ", "F", "u", "l", "l", " ", "T", "r", "u", "c",
                                        "k", "(", "s", ")">>

\* the (class, count) pairs a summary of getTrucksForFeet is formatted from
FormattedEntries ==
    IF totalLinearFeet <= 0 THEN <<>>
    ELSE IF PolicyFullTrucks > 0 /\ PolicyRemainder > 0
    THEN <<[type |-> "Full Truck", count |-> PolicyFullTrucks],
           [type |-> PolicyOverflowClass(PolicyRemainder), count |-> 1]>>
    ELSE IF PolicyFullTrucks > 0
    THEN <<[type |-> "Full Truck", count |-> PolicyFullTrucks]>>
    ELSE <<[type |-> PolicyOverflowClass(PolicyRemainder), count |-> 1]>>

\* how often the text pat (lower case) occurs in s, ignoring case
Occurrences(s, pat) == Cardinality({i \in 1..Len(s) : MatchesAt(s, i, pat)})

\* the sum of the counts of a list of entries
RECURSIVE SumOfCounts(_)
SumOfCounts(entries) ==
    IF entries = <<>> THEN 0 ELSE Head(entries).count + SumOfCounts(Tail(entries))

-----------------------------------------------------------------------------
(* Properties *)

\* C1: whenever the footage is positive with at least one full truck and a
\* positive remainder, getTrucksForFeet returns 'Mixed' with trucksNeeded =
\* fullTrucks + 1 and the summary "<fullTrucks> Full Truck(s) and 1 <overflow
\* class>", i.e. exactly the entries {Full Truck, fullTrucks}, {overflow class, 1}.
C1_MixedIsFullPlusOneOverflow ==
    (Decomposed /\ totalLinearFeet > 0 /\ PolicyFullTrucks > 0 /\ PolicyRemainder > 0)
    => /\ trucks.truckType = "Mixed"
       /\ trucks.trucksNeeded = PolicyFullTrucks + 1
       /\ trucks.summary = FullTrucksText(PolicyFullTrucks) \o <<" ", "a", "n", "d", " ", "1", " ">>
                             \o TypeText(PolicyOverflowClass(PolicyRemainder))

\* C1 witness: 50 ft were decomposed into one full truck and one LTL
C1_Witness ==
    /\ Decomposed
    /\ totalLinearFeet = 5000
    /\ trucks.truckType = "Mixed"
    /\ trucks.trucksNeeded = 2

\* C2: a footage strictly between 0 and 48 ft gives exactly one truck of one
\* class: LTL below 14 ft, Half Truck from 14 to 24 ft inclusive, Full Truck
\* above 24 ft (so 13.99 -> LTL, 14 -> Half, 24 -> Half, 24.01 -> Full).
C2_SingleTruckClassByFootage ==
    (Decomposed /\ totalLinearFeet > 0 /\ totalLinearFeet < 4800)
    => /\ trucks.trucksNeeded = 1
       /\ trucks.truckType = (IF totalLinearFeet < 1400 THEN "LTL"
                              ELSE IF totalLinearFeet <= 2400 THEN "Half Truck"
                              ELSE "Full Truck")
       /\ trucks.summary = <<"1", " ">> \o TypeText(trucks.truckType)
       /\ (totalLinearFeet = 1399 => trucks.truckType = "LTL")
       /\ (totalLinearFeet = 1400 => trucks.truckType = "Half Truck")
       /\ (totalLinearFeet = 2400 => trucks.truckType = "Half Truck")
       /\ (totalLinearFeet = 2401 => trucks.truckType = "Full Truck")

\* C2 witness: exactly 14 ft were decomposed into one half truck
C2_Witness ==
    /\ Decomposed
    /\ totalLinearFeet = 1400
    /\ trucks.truckType = "Half Truck"
    /\ trucks.trucksNeeded = 1

\* C3 (as claimed): with at least one full truck and a remainder above 24 ft the
\* overflow is merged into the Full count: the result is the single class Full
\* Truck with count fullTrucks + 1, not 'Mixed'.
C3_OverflowFullIsMerged ==
    (Decomposed /\ totalLinearFeet > 0 /\ PolicyFullTrucks > 0 /\ PolicyRemainder > 2400)
    => /\ trucks.truckType = "Full Truck"
       /\ trucks.trucksNeeded = PolicyFullTrucks + 1
       /\ trucks.summary = FullTrucksText(PolicyFullTrucks + 1)

\* C4: a positive exact multiple of 48 ft gives the single class Full Truck
\* with trucksNeeded = totalLinearFeet / 48, never 'Mixed'.
C4_ExactMultipleIsFullOnly ==
    (Decomposed /\ totalLinearFeet > 0 /\ totalLinearFeet % 4800 = 0)
    => /\ trucks.truckType = "Full Truck"
       /\ trucks.trucksNeeded = totalLinearFeet \div 4800
       /\ trucks.summary = FullTrucksText(totalLinearFeet \div 4800)

\* C4 witness: exactly 96 ft were decomposed into two full trucks
C4_Witness ==
    /\ Decomposed
    /\ totalLinearFeet = 9600
    /\ trucks.truckType = "Full Truck"
    /\ trucks.trucksNeeded = 2

\* C5: for a positive footage trucksNeeded is ceil(totalLinearFeet / 48), and it
\* does not decrease with the footage: a hundredth of a foot less never needs
\* more trucks and a hundredth more never needs fewer.
C5_TrucksNeededIsCeiling ==
    (Decomposed /\ totalLinearFeet > 0)
    => /\ trucks.trucksNeeded = (totalLinearFeet + 4799) \div 4800
       /\ getTrucksForFeet(totalLinearFeet - 1).trucksNeeded <= trucks.trucksNeeded
       /\ trucks.trucksNeeded <= getTrucksForFeet(totalLinearFeet + 1).trucksNeeded

\* C5 witness: 48.01 ft were rounded up to two trucks
C5_Witness ==
    /\ Decomposed
    /\ totalLinearFeet = 4801
    /\ trucks.trucksNeeded = 2

\* C6: for a 'Mixed' result the counts of the entries that the component parses
\* from the combined notes add up to the trucksNeeded of getTrucksForFeet.
C6_ParsedCountsSumToTrucksNeeded ==
    (pc = "rendered" /\ Decomposed /\ suggestion.truckType = "Mixed")
    => SumOfCounts(mixedParsed) = trucks.trucksNeeded

\* C6 witness: a Mixed suggestion of 11 trucks was parsed from notes of both
\* flows, the packing notes holding a recommendation sentence of their own
C6_Witness ==
    /\ pc = "rendered"
    /\ suggestion.truckType = "Mixed"
    /\ trucks.trucksNeeded = 11
    /\ packingResult.present
    /\ estimationResult.present
    /\ Contains(packingResult.packingNotes, RECOMMENDATION_IS)
    /\ Len(mixedParsed) = 2

\* C7 (as claimed): the summary of getTrucksForFeet names each truck class at
\* most once, for every footage >= 0.
C7_OneEntryPerClass ==
    (Decomposed /\ totalLinearFeet >= 0)
    => /\ Occurrences(trucks.summary, <<"f", "u", "l", "l", " ", "t", "r", "u", "c", "k">>) <= 1
       /\ Occurrences(trucks.summary, <<"h", "a", "l", "f", " ", "t", "r", "u", "c", "k">>) <= 1
       /\ Occurrences(trucks.summary, <<"l", "t", "l">>) <= 1

\* C8: a footage of 0 gives the zero-truck result as a normal value:
\* trucksNeeded = 0, the summary 'No shipment items.' (no truck class, no
\* count), the suggestion is returned and nothing is thrown.
C8_ZeroFeetIsZeroTrucks ==
    (Decomposed /\ totalLinearFeet = 0)
    => /\ trucks.trucksNeeded = 0
       /\ trucks.summary = <<"N", "o", " ", "s", "h", "i", "p", "m", "e", "n", "t", " ", "i", "t",
                             "e", "m", "s", ".">>
       /\ \A i \in 1..Len(trucks.summary) : ~IsDigit(trucks.summary[i])
       /\ suggestion.present
       /\ suggestion.trucksNeeded = 0
       /\ thrown = "none"
       /\ pc # "threw"

\* C8 witness: the packing flow reported 0 ft and the call returned
C8_Witness ==
    /\ Decomposed
    /\ packingResult.present
    /\ totalLinearFeet = 0
    /\ pc = "returned"

C10_ParseRoundTrip ==
    Decomposed => parseCombinedRecommendation(suggestion.packingNotes) = FormattedEntries

-----------------------------------------------------------------------------
(* Vocabulary of the properties of the parser and of the allocation *)

TruckClasses == {"Full Truck", "Half Truck", "LTL"}

\* the component has rendered a Mixed suggestion
RenderedMixed == pc = "rendered" /\ suggestion.present /\ suggestion.truckType = "Mixed"

\* the Mixed suggestion's notes were written from the clauses writtenClauses.clauses
RenderedClauses == RenderedMixed /\ writtenClauses.known

\* the clauses of cs that name the truck class
ClausesOf(cs, class) == {k \in 1..Len(cs) : cs[k].class = class}

\* the count a clause states: its integer, 1 when it states none
StatedCount(c) == IF c.n = -1 THEN 1 ELSE c.n

\* the count of a clause when a stated 0 counts as 1
CountOrOne(c) == IF c.n <= 0 THEN 1 ELSE c.n

\* the sum of CountOrOne over the clauses of cs at the positions ks
RECURSIVE SumOfClauseCounts(_, _)
SumOfClauseCounts(cs, ks) ==
    IF ks = {} THEN 0
    ELSE LET k == CHOOSE x \in ks : TRUE
         IN  CountOrOne(cs[k]) + SumOfClauseCounts(cs, ks \ {k})

\* the entries of the parsed list that carry the truck class
EntriesOf(entries, class) == {k \in 1..Len(entries) : entries[k].type = class}

\* the position of a class in the order Full Truck, Half Truck, LTL
Rank(class) == CASE class = "Full Truck" -> 1 [] class = "Half Truck" -> 2 [] OTHER -> 3

\* the keyword of a class occurs somewhere in the text
KeywordFound(text, class) ==
    CASE class = "Full Truck" -> Contains(text, <<"f", "u", "l", "l", " ", "t", "r", "u", "c",
                                        "k">>)
      [] class = "Half Truck" -> Contains(text, <<"h", "a", "l", "f", " ", "t", "r", "u", "c",
                                        "k">>)
      [] OTHER -> ContainsLtlWord(text) \/ \E w \in LESS_THAN_TRUCK : Contains(text, w)

\* capacity of a truck class in hundredths of a foot: LTL 14, Half 24, Full 48 ft
ClassCapacity(class) ==
    CASE class = "Full Truck" -> 4800 [] class = "Half Truck" -> 2400 [] OTHER -> 1400

\* x = n / d and x = min(1, n / d) for a fraction x and integers n, d with d > 0
IsQuotient(x, n, d) == x.num * d = n * x.den
IsClampedQuotient(x, n, d) == IF n >= d THEN x = OneFrac ELSE IsQuotient(x, n, d)

\* x + y over the least common denominator
FracAdd(x, y) ==
    LET d == (x.den \div GCD(x.den, y.den)) * y.den
    IN  Frac(x.num * (d \div x.den) + y.num * (d \div y.den), d)

\* the footage assigned to all classes: perTruckFeet * count summed over the entries
RECURSIVE AssignedFeet(_)
AssignedFeet(entries) ==
    IF entries = <<>> THEN ZeroFrac
    ELSE FracAdd(FracMul(allocation[Head(entries).type].perTruckFeet,
                         Frac(Head(entries).count, 1)),
                 AssignedFeet(Tail(entries)))

\* sum over the entries of count * capacity(class)
RECURSIVE CapacitySum(_)
CapacitySum(entries) ==
    IF entries = <<>> THEN 0
    ELSE Head(entries).count * ClassCapacity(Head(entries).type) + CapacitySum(Tail(entries))

\* every entry's allocation is its proportional share of linearFeet
SharesAreProportional ==
    \A k \in 1..Len(mixedParsed) :
        LET e == mixedParsed[k]
            a == allocation[e.type]
            classFeet == FracMul(Frac(suggestion.linearFeet, 1),
                                 Frac(e.count * ClassCapacity(e.type),
                                      CapacitySum(mixedParsed)))
        IN  /\ e.type \in DOMAIN allocation
            /\ a.perTruckFeet = FracDivInt(classFeet, e.count)
            /\ a.occupancy = MinOne(FracDivInt(a.perTruckFeet, ClassCapacity(e.type)))

-----------------------------------------------------------------------------
(* Properties of the parser and of the allocation *)

\* C11: parseCombinedRecommendation returns at most one entry per truck class;
\* the count of a class is the sum of the counts of the clauses that name it,
\* and the entries stand in the order in which the classes were first named.
C11_OneEntryPerClassSummedInOrder ==
    RenderedClauses =>
        LET cs == writtenClauses.clauses
        IN  /\ \A class \in TruckClasses :
                  /\ Cardinality(EntriesOf(mixedParsed, class)) <= 1
                  /\ (EntriesOf(mixedParsed, class) # {}) <=> (ClausesOf(cs, class) # {})
            /\ \A k \in 1..Len(mixedParsed) :
                  mixedParsed[k].count
                      = SumOfClauseCounts(cs, ClausesOf(cs, mixedParsed[k].type))
            /\ \A i, j \in 1..Len(mixedParsed) :
                  i < j => \E a \in ClausesOf(cs, mixedParsed[i].type) :
                               \A b \in ClausesOf(cs, mixedParsed[j].type) : a < b

\* C11 witness: Full Truck was named twice around an LTL clause and parsed into
\* one Full Truck entry of 3 trucks followed by the LTL entry
C11_Witness ==
    /\ RenderedClauses
    /\ Len(writtenClauses.clauses) = 3
    /\ writtenClauses.clauses[1].class = "Full Truck"
    /\ writtenClauses.clauses[2].class = "LTL"
    /\ writtenClauses.clauses[3].class = "Full Truck"
    /\ mixedParsed = <<[type |-> "Full Truck", count |-> 3], [type |-> "LTL", count |-> 1]>>

\* C12 (as claimed): the count of a clause's entry is the clause's leading
\* integer, otherwise the first integer anywhere in the clause, otherwise 1
\* (read on sentences that name every class once, so that no counts are summed).
C12_CountIsStatedInteger ==
    RenderedClauses =>
        LET cs == writtenClauses.clauses
        IN  (\A class \in TruckClasses : Cardinality(ClausesOf(cs, class)) <= 1)
            => \A k \in 1..Len(cs) :
                   cs[k].class # "none"
                   => \E i \in 1..Len(mixedParsed) :
                          /\ mixedParsed[i].type = cs[k].class
                          /\ mixedParsed[i].count = StatedCount(cs[k])

\* C12 (amended): as claimed, except that a stated integer 0 gives the count 1.
C12_CountIsStatedIntegerOrOne ==
    RenderedClauses =>
        LET cs == writtenClauses.clauses
        IN  (\A class \in TruckClasses : Cardinality(ClausesOf(cs, class)) <= 1)
            => \A k \in 1..Len(cs) :
                   cs[k].class # "none"
                   => \E i \in 1..Len(mixedParsed) :
                          /\ mixedParsed[i].type = cs[k].class
                          /\ mixedParsed[i].count = CountOrOne(cs[k])

\* C12 witness: a clause with its integer behind the phrase, one stating 0 and
\* one stating no integer were parsed to the counts 4, 1 and 1
C12_Witness ==
    /\ RenderedClauses
    /\ Len(writtenClauses.clauses) = 3
    /\ writtenClauses.clauses[1].text = <<"H", "a", "l", "f", " ", "T", "r", "u", "c", "k", " ",
                                        "4">>
    /\ writtenClauses.clauses[2].text = <<"0", " ", "L", "T", "L">>
    /\ writtenClauses.clauses[3].text = <<"f", "u", "l", "l", " ", "t", "r", "u", "c", "k">>
    /\ mixedParsed = <<[type |-> "Half Truck", count |-> 4], [type |-> "LTL", count |-> 1],
                       [type |-> "Full Truck", count |-> 1]>>

\* C13: when the structured parse yields no entry and the text is present,
\* getMixedTypes returns every class whose keyword occurs in the whole text,
\* each once and in the order Full Truck, Half Truck, LTL, and [Full Truck,
\* LTL] when no keyword occurs.
C13_KeywordFallback ==
    (RenderedMixed /\ Len(mixedParsed) = 0 /\ suggestion.packingNotes # <<>>)
    => LET found == {class \in TruckClasses : KeywordFound(suggestion.packingNotes, class)}
       IN  /\ \A i, j \in 1..Len(mixedTypes) :
                 i < j => Rank(mixedTypes[i]) < Rank(mixedTypes[j])
           /\ found # {} => {mixedTypes[k] : k \in 1..Len(mixedTypes)} = found
           /\ found = {} => mixedTypes = <<"Full Truck", "LTL">>

\* C13 witness: notes without a recommendation sentence that name a half truck
\* before a full truck gave the types Full Truck, Half Truck
C13_Witness ==
    /\ RenderedMixed
    /\ Len(mixedParsed) = 0
    /\ suggestion.packingNotes = <<"U", "s", "e", " ", "a", " ", "h", "a", "l", "f", " ", "t", "r",
                                   "u", "c", "k", " ", "a", "n", "d", " ", "a", " ", "F", "u", "l",
                                   "l", " ", "T", "r", "u", "c", "k", ".">>
    /\ mixedTypes = <<"Full Truck", "Half Truck">>

\* C14: for every text, absent, empty or malformed, the parser returns a list
\* of entries (a truck class with a count of at least 1) and nothing is thrown;
\* a clause that names no truck class adds no entry, and the classes of the
\* other clauses are all parsed.
C14_ParserIsTotal ==
    RenderedMixed =>
        /\ thrown = "none"
        /\ DOMAIN mixedParsed = 1..Len(mixedParsed)
        /\ Len(mixedParsed) <= Cardinality(TruckClasses)
        /\ \A k \in 1..Len(mixedParsed) :
              mixedParsed[k].type \in TruckClasses /\ mixedParsed[k].count >= 1
        /\ (suggestion.packingNotes = <<>> => mixedParsed = <<>>)
        /\ writtenClauses.known =>
              {mixedParsed[k].type : k \in 1..Len(mixedParsed)}
                  = {writtenClauses.clauses[k].class : k \in 1..Len(writtenClauses.clauses)}
                      \ {"none"}

\* C14 witness: of the clauses "3 vans" and "1 LTL" only the LTL was parsed
C14_Witness ==
    /\ RenderedClauses
    /\ Len(writtenClauses.clauses) = 2
    /\ writtenClauses.clauses[1].class = "none"
    /\ writtenClauses.clauses[2].text = <<"1", " ", "L", "T", "L">>
    /\ mixedParsed = <<[type |-> "LTL", count |-> 1]>>

\* C15: for every rendered suggestion, single-class or Mixed, with linearFeet
\* >= 0, every occupancy of the allocation map lies in [0, 1].
C15_OccupancyWithinUnit ==
    (pc = "rendered" /\ suggestion.present /\ suggestion.linearFeet >= 0)
    => \A t \in DOMAIN allocation :
           /\ FracLeq(ZeroFrac, allocation[t].occupancy)
           /\ FracLeq(allocation[t].occupancy, OneFrac)

\* C15 witness: a Mixed suggestion whose Full Truck class was assigned more
\* than 48 ft per truck, with the occupancy held at 1
C15_Witness ==
    /\ RenderedMixed
    /\ "Full Truck" \in DOMAIN allocation
    /\ FracLeq(Frac(4801, 1), allocation["Full Truck"].perTruckFeet)
    /\ allocation["Full Truck"].occupancy = OneFrac

\* C16: for a single-class suggestion with trucksNeeded >= 1, perTruckFeet =
\* linearFeet / trucksNeeded and occupancy = min(1, perTruckFeet / capacity)
\* with the capacities LTL 14, Half Truck 24, Full Truck 48; with trucksNeeded
\* = 0 both are 0.
C16_SingleClassAllocation ==
    (pc = "rendered" /\ suggestion.present /\ suggestion.truckType \in TruckClasses)
    => LET a == allocation[suggestion.truckType]
           cap == ClassCapacity(suggestion.truckType)
       IN  /\ DOMAIN allocation = {suggestion.truckType}
           /\ suggestion.trucksNeeded >= 1 =>
                 /\ IsQuotient(a.perTruckFeet, suggestion.linearFeet, suggestion.trucksNeeded)
                 /\ IsClampedQuotient(a.occupancy, a.perTruckFeet.num,
                                      a.perTruckFeet.den * cap)
           /\ suggestion.trucksNeeded = 0 =>
                 a.perTruckFeet = ZeroFrac /\ a.occupancy = ZeroFrac

\* C16 witness: 14 ft on 3 LTL trucks are 4.67 ft per truck, a third of an LTL
C16_Witness ==
    /\ pc = "rendered"
    /\ suggestion.truckType = "LTL"
    /\ suggestion.trucksNeeded = 3
    /\ suggestion.linearFeet = 1400
    /\ allocation["LTL"].perTruckFeet = [num |-> 1400, den |-> 3]
    /\ allocation["LTL"].occupancy = [num |-> 1, den |-> 3]

PackingRate(item) ==
    IF skuData[item.sku].rollsPerPallet # 0 THEN skuData[item.sku].rollsPerPallet
    ELSE skuData[item.sku].qtyPerPallet

\* C19 (as claimed): an item whose packing rate is zero or negative is kept out
\* of the packing computation: no such item is among the items handed to the
\* packing flow.
C19_InvalidRateItemIsExcluded ==
    \A k \in 1..Len(itemsForPacking) : PackingRate(itemsForPacking[k]) > 0

-----------------------------------------------------------------------------
(* Vocabulary of the properties of getTruckSuggestion *)

\* the item has a category, a non-zero rollsPerPallet or qtyPerPallet, a
\* palletLength and a weightLbs
HasPackingAttributes(item) ==
    /\ skuData[item.sku].category # ""
    /\ skuData[item.sku].rollsPerPallet # 0 \/ skuData[item.sku].qtyPerPallet # 0
    /\ skuData[item.sku].palletLength # 0
    /\ skuData[item.sku].weightLbs # 0

LacksPackingAttributes(item) == ~HasPackingAttributes(item)

\* the call of getTruckSuggestion is over: it returned or threw
CallIsOver == pc \in {"returned", "rendered", "threw"}

\* the packing flow, the estimation flow was invoked and did not return a result
PackingFailed == packingCalls > 0 /\ pc # "packing" /\ ~packingResult.present
EstimationFailed == estimationCalls > 0 /\ pc # "estimation" /\ ~estimationResult.present

\* the trucks of the suggestion as (class, count) entries: those parsed from
\* the notes of a Mixed suggestion, the one class of any other
RecommendedEntries ==
    IF suggestion.truckType = "Mixed" THEN mixedParsed
    ELSE <<[type |-> suggestion.truckType, count |-> suggestion.trucksNeeded]>>

\* what the packing flow could have returned with the same linearFeet
SameFeetPackingResults(pr) ==
    IF ~pr.present THEN {pr}
    ELSE {[pr EXCEPT !.truckType = t.truckType, !.trucksNeeded = t.trucksNeeded,
                     !.packingNotes = n] : t \in FlowTrucks, n \in PackingNotesTexts}

\* what the estimation flow could have returned with the same linearFeet
SameFeetEstimationResults(er) ==
    IF ~er.present THEN {er}
    ELSE {[er EXCEPT !.truckType = t.truckType, !.numberOfTrucks = t.trucksNeeded,
                     !.reasoning = r] : t \in FlowTrucks, r \in ReasoningTexts}

-----------------------------------------------------------------------------
(* Properties of getTruckSuggestion *)

\* C22 (as claimed): when no item of the shipment is packable (the list is
\* empty, or every item lacks the packing attributes), getTruckSuggestion
\* returns linearFeet = 0 with the zero-truck result and does not throw.
C22_NoPackableItemIsZeroFeet ==
    (CallIsOver /\ \A k \in 1..Len(itemsWithData) : LacksPackingAttributes(itemsWithData[k]))
    => /\ pc # "threw"
       /\ suggestion.present
       /\ suggestion.linearFeet = 0
       /\ suggestion.trucksNeeded = 0

\* C23: a failure of either flow is passed on to the caller without retry: the
\* call throws and returns no suggestion, each flow is invoked at most once per
\* call, and the estimation flow is not invoked after the packing flow failed.
C23_FlowFailureIsPropagated ==
    /\ packingCalls <= 1
    /\ estimationCalls <= 1
    /\ PackingFailed =>
          pc = "threw" /\ thrown # "none" /\ ~suggestion.present /\ estimationCalls = 0
    /\ EstimationFailed =>
          pc = "threw" /\ thrown # "none" /\ ~suggestion.present
    /\ thrown # "none" => PackingFailed \/ EstimationFailed

\* C23 witness: the packing flow failed while items were waiting for the
\* estimation flow, which was not invoked; the call threw
C23_Witness ==
    /\ pc = "threw"
    /\ PackingFailed
    /\ Len(itemsForEstimation) > 0
    /\ estimationCalls = 0
    /\ thrown = "The calculation took too long to complete."

\* C24: for every totalLinearFeet > 0 the recommended trucks have enough
\* capacity (LTL 14, Half Truck 24, Full Truck 48 ft each): the capacities add
\* up to totalLinearFeet or more, so perTruckFeet / capacity is at most 1 for
\* every class of the allocation and the occupancy is that quotient unclamped.
C24_RecommendedTrucksHoldTheLoad ==
    (pc = "rendered" /\ Decomposed /\ suggestion.linearFeet > 0)
    => /\ CapacitySum(RecommendedEntries) >= suggestion.linearFeet
       /\ \A k \in 1..Len(RecommendedEntries) :
              RecommendedEntries[k].type \in DOMAIN allocation
       /\ \A t \in DOMAIN allocation :
              LET unclamped == FracDivInt(allocation[t].perTruckFeet, ClassCapacity(t))
              IN  /\ FracLeq(unclamped, OneFrac)
                  /\ allocation[t].occupancy = unclamped

\* C24 witness: 50 ft on one full truck and one LTL, 62 ft of capacity, each
\* truck filled to 25/31
C24_Witness ==
    /\ pc = "rendered"
    /\ Decomposed
    /\ suggestion.linearFeet = 5000
    /\ RecommendedEntries = <<[type |-> "Full Truck", count |-> 1],
                              [type |-> "LTL", count |-> 1]>>
    /\ allocation["Full Truck"].occupancy = [num |-> 25, den |-> 31]
    /\ allocation["LTL"].occupancy = [num |-> 25, den |-> 31]

\* C25: the truckType and trucksNeeded that getTruckSuggestion returns depend
\* only on the sum of the linearFeet the flows returned: had the flows returned
\* the same linearFeet with another truckType, trucksNeeded / numberOfTrucks or
\* notes, or the same sum from the packing flow alone, the returned truckType
\* and trucksNeeded would be the same.
C25_TrucksDependOnFeetOnly ==
    (pc \in {"returned", "rendered"} /\ Decomposed)
    => /\ \A pr \in SameFeetPackingResults(packingResult),
             er \in SameFeetEstimationResults(estimationResult) :
              /\ trucksOf(pr, er).truckType = suggestion.truckType
              /\ trucksOf(pr, er).trucksNeeded = suggestion.trucksNeeded
       /\ packingResult.present =>
              LET alone == [packingResult EXCEPT !.linearFeet = totalLinearFeet]
              IN  /\ trucksOf(alone, NoResult).truckType = suggestion.truckType
                  /\ trucksOf(alone, NoResult).trucksNeeded = suggestion.trucksNeeded

\* C25 witness: the packing flow recommended 9 full trucks and the estimation
\* flow 9 more for 10.01 ft together; the call returned 1 LTL
C25_Witness ==
    /\ pc = "returned"
    /\ packingResult.present
    /\ packingResult.truckType = "Full Truck"
    /\ packingResult.trucksNeeded = 9
    /\ estimationResult.present
    /\ estimationResult.numberOfTrucks = 9
    /\ totalLinearFeet = 1001
    /\ suggestion.truckType = "LTL"
    /\ suggestion.trucksNeeded = 1

\* C26: getTruckSuggestion routes every input item to exactly one flow: to the
\* packing flow iff it has a category, a non-zero rollsPerPallet or
\* qtyPerPallet, a palletLength and a weightLbs, else to the estimation flow;
\* no item is dropped or sent to both, the order is kept, and a flow is invoked
\* only when its item list is non-empty.
C26_EveryItemGoesToOneFlow ==
    (pc # "idle")
    => /\ itemsForPacking = SelectSeq(itemsWithData, HasPackingAttributes)
       /\ itemsForEstimation = SelectSeq(itemsWithData, LacksPackingAttributes)
       /\ Len(itemsForPacking) + Len(itemsForEstimation) = Len(itemsWithData)
       /\ packingCalls > 0 => Len(itemsForPacking) > 0
       /\ estimationCalls > 0 => Len(itemsForEstimation) > 0

\* C26 witness: an item without catalog data and an item with the rate -4 were
\* handed over in this order; each flow was invoked once with its one item
C26_Witness ==
    /\ pc = "returned"
    /\ itemsWithData = <<[sku |-> "UNLISTED", quantity |-> 1],
                         [sku |-> "TPO-NEG", quantity |-> 1]>>
    /\ itemsForPacking = <<[sku |-> "TPO-NEG", quantity |-> 1]>>
    /\ itemsForEstimation = <<[sku |-> "UNLISTED", quantity |-> 1]>>
    /\ packingCalls = 1
    /\ estimationCalls = 1

-----------------------------------------------------------------------------
(* Vocabulary of the properties of the recommendation sentence *)

\* where "recommendation is" occurs in the text, ignoring case
MarkerPositions(s) == {i \in 1..Len(s) : MatchesAt(s, i, RECOMMENDATION_IS)}

\* the text from position a up to the end of its line
RestOfLine(s, a) ==
    LET ends == {k \in a..Len(s) : IsLineTerminator(s[k])}
    IN  Slice(s, a, IF ends = {} THEN Len(s) ELSE SetMin(ends) - 1)

\* the first occurrence of the marker with the rest of its line
MarkerLine(s) == RestOfLine(s, SetMin(MarkerPositions(s)))

\* the first occurrence of the marker with its colon, followed by the line on
\* which the text after the marker, the colon and any white space starts
MarkerAndNextText(s) ==
    LET i == SetMin(MarkerPositions(s))
        p == i + Len(RECOMMENDATION_IS)
        c == IF p <= Len(s) /\ s[p] = ":" THEN p + 1 ELSE p
        a == SetMin({k \in c..(Len(s) + 1) : k > Len(s) \/ ~IsSpace(s[k])})
    IN  Slice(s, i, c - 1) \o RestOfLine(s, a)

-----------------------------------------------------------------------------
(* Properties of the recommendation sentence *)

\* C27 (as claimed): parseCombinedRecommendation parses only the text from the
\* first "recommendation is" up to the end of that line: without the marker the
\* structured result is empty, and with it the result is that of the marker's
\* line alone, whatever the other lines hold.
C27_OnlyTheMarkerLineIsParsed ==
    RenderedMixed
    => IF MarkerPositions(suggestion.packingNotes) = {} THEN mixedParsed = <<>>
       ELSE mixedParsed = parseCombinedRecommendation(MarkerLine(suggestion.packingNotes))

\* C27 (amended): parseCombinedRecommendation parses only the text that follows
\* the first "recommendation is", an optional colon and any white space, line
\* breaks included, up to the end of the line on which that text starts:
\* without the marker the structured result is empty, and with it the result
\* is that of this one line, whatever the other lines hold.
C27_OnlyTheTextAfterTheMarkerIsParsed ==
    RenderedMixed
    => IF MarkerPositions(suggestion.packingNotes) = {} THEN mixedParsed = <<>>
       ELSE mixedParsed =
                parseCombinedRecommendation(MarkerAndNextText(suggestion.packingNotes))

\* C27 witness: the marker ends its line; the two full trucks of the next line
\* were parsed, the LTL of the line after it was not
C27_Witness ==
    /\ RenderedMixed
    /\ suggestion.packingNotes = <<"T", "h", "e", " ", "r", "e", "c", "o", "m", "m", "e", "n", "d",
                                   "a", "t", "i", "o", "n", " ", "i", "s", ":", "\n", "2", " ",
                                   "F", "u", "l", "l", " ", "T", "r", "u", "c", "k", "(", "s", ")",
                                   "\n", "L", "o", "a", "d", " ", "1", " ", "L", "T", "L", " ",
                                   "l", "a", "s", "t", ".">>
    /\ mixedParsed = <<[type |-> "Full Truck", count |-> 2]>>

-----------------------------------------------------------------------------
(* Properties of the TruckCalculator component *)

\* C28: isLoading is true exactly while a getTruckSuggestion call started by
\* handleCalculate is pending; at most one call is pending at any time, since a
\* call is started only when isLoading is false and the item list is non-empty;
\* and once the pending call settles, by success or failure, isLoading is false
\* again.
C28_LoadingWhileCallPending ==
    /\ [](isLoading <=> Len(pendingCalls) > 0)
    /\ [](Len(pendingCalls) <= 1)
    /\ [][Len(pendingCalls') > Len(pendingCalls) => ~isLoading /\ Len(items) > 0]_vars
    /\ [][lastOp'.op \in {"resolved", "rejected"} => isLoading /\ ~isLoading']_vars
    /\ (isLoading ~> ~isLoading)

\* C28 witness: a call failed while the list was being emptied; isLoading is
\* false again and no call is pending
C28_Witness ==
    /\ lastOp.op = "rejected"
    /\ ~isLoading
    /\ pendingCalls = <<>>
    /\ items = <<>>

\* C29: handleCalculate clears the suggestion before it calls
\* getTruckSuggestion: the suggestion is null whenever isLoading is true and
\* stays null after a failed call; and handleCalculate on an empty item list
\* would, in every state, issue no call and leave suggestion and isLoading as
\* they are.
C29_SuggestionClearedWhileLoading ==
    /\ isLoading => ~suggestion.present
    /\ lastOp.op = "rejected" => ~suggestion.present
    /\ handleCalculate(<<>>, suggestion, isLoading)
         = [suggestion |-> suggestion, isLoading |-> isLoading, called |-> FALSE]

\* C29 witness: a suggestion had been set for an earlier call; the next call
\* failed and the suggestion is null
C29_Witness ==
    /\ lastOp.op = "rejected"
    /\ ~isLoading
    /\ ~suggestion.present
    /\ suggestionItems # <<>>

\* C30: addItem appends the item at the end of the list, removeItem(index)
\* removes exactly the item at the index and keeps the order of the others;
\* both leave suggestion, isLoading and the call in flight as they are; a call
\* is given the item list of the moment it starts, and the suggestion a
\* resolved call sets is the one for the list that call was given.
C30_ListEditsLeaveTheCalculationAlone ==
    [][/\ lastOp'.op = "addItem" =>
            /\ items' = items \o <<lastOp'.item>>
            /\ UNCHANGED <<suggestion, isLoading, pendingCalls, suggestionItems>>
       /\ lastOp'.op = "removeItem" =>
            /\ Len(items') = Len(items) - 1
            /\ \A j \in 1..Len(items') :
                   items'[j] = IF j < lastOp'.index THEN items[j] ELSE items[j + 1]
            /\ UNCHANGED <<suggestion, isLoading, pendingCalls, suggestionItems>>
       /\ Len(pendingCalls') > Len(pendingCalls) =>
            /\ lastOp'.op = "handleCalculate"
            /\ pendingCalls' = pendingCalls \o <<[items |-> items]>>
       /\ suggestion' # suggestion /\ suggestion'.present =>
            /\ lastOp'.op = "resolved"
            /\ \E k \in 1..Len(pendingCalls) : suggestionItems' = pendingCalls[k].items
      ]_vars

\* C30 witness: the one item of the list was removed while the calculation
\* ran; the suggestion set is the one for the list with that item
C30_Witness ==
    /\ lastOp.op = "resolved"
    /\ suggestion.present
    /\ Len(suggestionItems) = 1
    /\ items = <<>>

Next ==
    \/ Call
    \/ PackingReturns
    \/ PackingFails
    \/ EstimationReturns
    \/ EstimationFails
    \/ Combine
    \/ Render

Spec == Init /\ [][Next]_vars

RenderNext == Render

RenderSpec == RenderInit /\ [][RenderNext]_vars

ComponentNext ==
    \/ AddItem
    \/ RemoveItem
    \/ HandleCalculate
    \/ CalculationResolves
    \/ CalculationRejects

ComponentSpec == Init /\ [][ComponentNext]_vars

\* a call of getTruckSuggestion in flight settles: the promise of the server
\* action resolves or rejects
CalculationSettles == CalculationResolves \/ CalculationRejects

FairComponentSpec == ComponentSpec /\ WF_vars(CalculationSettles)

====
